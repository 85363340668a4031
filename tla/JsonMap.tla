------------------------------- MODULE JsonMap -------------------------------
(***************************************************************************)
(* What a JSON object promises its callers: a map from names to values.    *)
(***************************************************************************)
CONSTANTS Name, Value

VARIABLE map

MapInit == map = [n \in {} |-> n]

Put(n, v) ==
  map' = [m \in {n} \cup DOMAIN map |-> IF m = n THEN v ELSE map[m]]

Delete(n) ==
  /\ n \in DOMAIN map
  /\ map' = [m \in DOMAIN map \ {n} |-> map[m]]

Empty == map' = [n \in {} |-> n]

MapNext ==
  \/ \E n \in Name, v \in Value : Put(n, v)
  \/ \E n \in Name : Delete(n)
  \/ Empty

MapSpec == MapInit /\ [][MapNext]_map
=============================================================================
