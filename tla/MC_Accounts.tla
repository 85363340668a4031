----------------------------- MODULE MC_Accounts -----------------------------
(***************************************************************************)
(* Small instances of Accounts for TLC.                                    *)
(***************************************************************************)
EXTENDS AccountsRefinement, TLC

\* ann and bob have short addresses; the JWT of mid's overflows the cookie
\* buffer; full's fills its array; over1 and over2 go on after the same 128
\* bytes, which are full's address.
CONSTANTS ann, bob, mid, full, over1, over2

Length ==
  ann :> 20 @@ bob :> 45 @@ mid :> 60 @@ full :> 128 @@ over1 :> 200 @@ over2 :> 129

EmailLengths == [e \in Email |-> Length[e]]
Clips == [e \in Email |-> IF Length[e] > EMAIL_CHAR_SIZE THEN full ELSE e]

Interchangeable ==
  Permutations(UserId) \cup Permutations(Worker) \cup Permutations(Client)
    \cup Permutations(Password)
==============================================================================
