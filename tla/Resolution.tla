----------------------------- MODULE Resolution -----------------------------
(***************************************************************************)
(* The resolution table of src/src/metrics/policy/resolution.go: the       *)
(* supported ResolutionValues, the map valuesToResolution, and its inverse *)
(* resolutionToValues, which init() builds by ranging over the map.  Go    *)
(* ranges over a map in an unspecified order, so the inverse is a function *)
(* of that order.  A Resolution is [window, precision], the window a       *)
(* time.Duration in nanoseconds and the precision an xtime unit.            *)
(***************************************************************************)
EXTENDS Integers, Sequences, SequencesExt

\* The ResolutionValue constants (iota).
UnknownResolution == 0
OneSecond == 1
TenSeconds == 2
OneMinute == 3
FiveMinutes == 4
TenMinutes == 5

\* xtime units.
Second == "s"
Minute == "m"

Res(window, precision) == [window |-> window, precision |-> precision]

\* The zero Resolution returned with an error.
EmptyResolution == Res(0, "none")

\* valuesToResolution, as the code writes it.
ValuesToResolution ==
    (OneSecond   :> Res(1, Second)) @@
    (TenSeconds  :> Res(10, Second)) @@
    (OneMinute   :> Res(1, Minute)) @@
    (FiveMinutes :> Res(5, Minute)) @@
    (TenMinutes  :> Res(10, Minute))

\* The orders in which init() may range over valuesToResolution.
RangeOrders == SetToSeqs(DOMAIN ValuesToResolution)

\* init(): resolutionToValues[resolution] = value for each entry in the
\* given order; a later entry overwrites an earlier one.
InitInverse(order) ==
    FoldLeft(LAMBDA m, v : (ValuesToResolution[v] :> v) @@ m, <<>>, order)

\* ResolutionValue.Resolution().
ResolutionOf(v) ==
    IF v \in DOMAIN ValuesToResolution
    THEN [res |-> ValuesToResolution[v], err |-> "nil"]
    ELSE [res |-> EmptyResolution, err |-> "errUnknownResolutionValue"]

\* ValueFromResolution, reading the inverse built by init().
ValueFromResolution(inverse, r) ==
    IF r \in DOMAIN inverse
    THEN [val |-> inverse[r], err |-> "nil"]
    ELSE [val |-> UnknownResolution, err |-> "errUnknownResolution"]

=============================================================================
