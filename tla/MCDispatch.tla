----------------------------- MODULE MCDispatch -----------------------------
(* Instance of Dispatch for TLC: two classes besides Object, two instances, *)
(* two methods of one name, one of them Object's, and a _getattribute.    *)
EXTENDS Dispatch, TLC

CONSTANTS B, D, typename, typename2, intercept, name, foo, bar, call, get, read

MCNameOf ==
  [m \in Method |-> IF m = intercept THEN Getattribute ELSE name]
DispatchSymmetry == Permutations({B, D}) \cup Permutations(Instance)
MCSiteName == [s \in CallSite \cup AttribSite |-> IF s = read THEN foo ELSE name]
=============================================================================
