----------------------------- MODULE FluidStates -----------------------------
(***************************************************************************)
(* hydro_domain/fluid.py and hydroliquid/properties.py: the properties of  *)
(* a product at the temperature of a scenario, frozen for a simulation.    *)
(*                                                                         *)
(* A sheet gives each property as a table, a constant or not at all; the   *)
(* library CoolProp, when the sheet names one of its fluids, is external   *)
(* and answers what the sheet does not.  The dilatation of a constant      *)
(* density and the notes are left out.                                     *)
(***************************************************************************)
EXTENDS Tables, Quantities

Properties == {"density", "viscosity", "vapour"}

IsSheet(sheet) ==
    /\ \A p \in Properties : sheet.tables[p] \in Maybe(Curves) /\ sheet.constants[p] \in Maybe(Int)
    /\ sheet.coolprop # None => \A p \in Properties : sheet.coolprop[p] \in Int
    /\ sheet.reference \in Int

Value(value, extrapolated) == [value |-> value, extrapolated |-> extrapolated]

\* PropertyTable.evaluate: an extrapolation is allowed, and always reported.
ReadTable(table, temperature) == Value(Evaluate(table, temperature), ~InDomain(table, temperature))

HasOwn(sheet, property) == sheet.tables[property] # None \/ sheet.constants[property] # None

\* Fluid: a table comes before a constant.
OwnValue(sheet, property, temperature) ==
    IF sheet.tables[property] # None THEN ReadTable(sheet.tables[property], temperature)
                                     ELSE Value(sheet.constants[property], FALSE)

\* A vapour pressure that nothing gives is zero; the other properties raise.
Missing(property) == IF property = "vapour" THEN Value(0, FALSE) ELSE Refused

\* FluidPropertyProvider: the sheet, then CoolProp.
Provided(sheet, property, temperature) ==
    IF HasOwn(sheet, property) THEN OwnValue(sheet, property, temperature)
    ELSE IF sheet.coolprop # None THEN Value(sheet.coolprop[property], FALSE) ELSE Missing(property)

StateOf(values) ==
    IF \E property \in Properties : values[property] = Refused THEN Refused
    ELSE [vapour |-> values["vapour"].value, extrapolated |-> \E property \in Properties : values[property].extrapolated]

\* FluidPropertyProvider.resolve at the temperature of the scenario, or of the sheet.
FluidState(sheet, temperature) ==
    LET t == IF temperature = None THEN sheet.reference ELSE temperature
    IN  StateOf([property \in Properties |-> Provided(sheet, property, t)])
=============================================================================
