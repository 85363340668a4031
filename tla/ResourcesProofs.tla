--------------------------- MODULE ResourcesProofs ---------------------------
(***************************************************************************)
(* Proofs about Resources for any number of threads, any handlers and any  *)
(* amount of memory, with the database up, down or silent at any time.     *)
(***************************************************************************)
EXTENDS Resources, FiniteSetTheorems, TLAPS

-----------------------------------------------------------------------------
(* The inductive invariant. *)

\* A worker's pointers are the ones its position in the code calls for.
Own(w) ==
  /\ at[w] = "idle" => conn[w] = None /\ res[w] = None /\ user[w] = None /\ ctext[w] = None
  /\ at[w] # "idle" => op[w] \in Op /\ call[w] \in Fn
  /\ call[w] = "lookup" => op[w] \notin ApiOps
  /\ conn[w] # None <=> at[w] \in {"exec", "good", "bad"}
  /\ conn[w] # None => heap[conn[w]] = "session"
  /\ at[w] = "good" \/ (at[w] = "yes" /\ call[w] \in Handing) => res[w] # None
  /\ res[w] # None => /\ at[w] \in {"good", "bad"} \/ (at[w] = "yes" /\ call[w] \in Handing)
                      /\ heap[res[w]] = call[w]
  /\ user[w] # None => /\ heap[user[w]] = op[w] /\ op[w] \notin ApiOps
                       /\ call[w] = "lookup" => at[w] = "yes"
  /\ ctext[w] # None => heap[ctext[w]] = Page(op[w])

Distinct == \A w, v \in Worker : w # v => Holds(w) \cap Holds(v) = {}

Harmless == {"free", "session"} \cup KnownLeaks

\* Every session and every object that is not of a known leak has its pointer.
Accounted ==
  \A x \in Object :
    /\ heap[x] = "session" => \E w \in Worker : conn[w] = x
    /\ heap[x] \notin Harmless => \E w \in Worker : x \in Holds(w)

IInv ==
  /\ TypeOK
  /\ \A w \in Worker : Own(w)
  /\ Distinct
  /\ Accounted

-----------------------------------------------------------------------------
(* A step of one worker disturbs no other. *)

\* The other workers' pointers stay; what the worker gets was free, what it
\* frees was its own, and what it drops is freed or of a known leak.
Local(w) ==
  /\ \A v \in Worker \ {w} :
       /\ op'[v] = op[v] /\ call'[v] = call[v] /\ at'[v] = at[v]
       /\ conn'[v] = conn[v] /\ res'[v] = res[v] /\ user'[v] = user[v] /\ ctext'[v] = ctext[v]
  /\ \A x \in Object : heap'[x] = heap[x] \/ x \in Holds(w) \/ heap[x] = "free"
  /\ \A x \in Holds(w)' : x \in Holds(w) \/ (x \in Object /\ heap[x] = "free")
  /\ \A x \in Object :
       heap'[x] = "session" => conn'[w] = x \/ (heap[x] = "session" /\ conn[w] # x)
  /\ \A x \in Object :
       heap'[x] \notin Harmless =>
         x \in Holds(w)' \/ (heap[x] \notin Harmless /\ x \notin Holds(w))

\* The functions, the handlers and their contexts have names of their own.
LEMMA Names ==
  /\ Op \cap ({"free", "session", "failed", "none"} \cup Fn) = {}
  /\ Fn \cap {"free", "session", "failed", "none"} = {}
  /\ Pages \cap ({"free", "session", "failed", "none"} \cup Fn \cup Op) = {}
<1>1. Op \subseteq Ops
  BY ResourcesAssumption
<1>2. Pages \subseteq {"lp_post_index_handler", "lp_index_handler", "lp_404_page",
                      "lp_app_main", "lp_app_new_project", "lp_app_project",
                      "lp_app_project_keys", "lp_app_post_new_project"}
  BY DEF Pages, Page
<1> QED
  BY <1>1, <1>2 DEF Ops, FormOps, ApiOps, OpenOps, CreateOps, JunkOps, ClosedOps, Fn

LEMMA PageIsKnown == \A o \in Op : Page(o) \in Pages
BY ResourcesAssumption DEF Pages

\* A worker's pointers are to different objects.
LEMMA PointersDiffer ==
  ASSUME IInv, NEW w \in Worker, at[w] # "idle"
  PROVE  /\ conn[w] # None => conn[w] \in Object /\ conn[w] \notin {res[w], user[w], ctext[w]}
         /\ res[w] # None => res[w] \in Object /\ res[w] \notin {user[w], ctext[w]}
         /\ user[w] # None => user[w] \in Object /\ user[w] # ctext[w]
         /\ ctext[w] # None => ctext[w] \in Object
<1>1. Own(w) /\ op[w] \in Op /\ call[w] \in Fn /\ Page(op[w]) \in Pages
  BY PageIsKnown DEF IInv, Own
<1> QED
  BY <1>1, Names DEF Own, IInv, TypeOK

\* What a worker holds is allocated.
LEMMA HeldIsUsed ==
  ASSUME IInv, NEW w \in Worker, NEW x \in Holds(w)
  PROVE  x \in Object /\ heap[x] # "free"
<1>1. x \in Object /\ x # None /\ (x = conn[w] \/ x = res[w] \/ x = user[w] \/ x = ctext[w])
  BY DEF IInv, TypeOK, Holds
<1>2. Own(w) /\ (at[w] # "idle" => op[w] \in Op /\ call[w] \in Fn)
  BY DEF IInv, Own
<1>3. "free" \notin Op /\ "free" \notin Fn /\ \A o \in Op : Page(o) # "free"
  BY Names, PageIsKnown
<1> QED
  BY <1>1, <1>2, <1>3 DEF Own

LEMMA LocalStep ==
  ASSUME IInv, NEW w \in Worker, Local(w), TypeOK', Own(w)'
  PROVE  IInv'
<1>1. ASSUME NEW v \in Worker, v # w
      PROVE  /\ Holds(v)' = Holds(v)
             /\ \A x \in Holds(v) : heap'[x] = heap[x]
    <2>1. Holds(v)' = Holds(v)
      BY <1>1 DEF Local, Holds
    <2>2. ASSUME NEW x \in Holds(v) PROVE heap'[x] = heap[x]
      <3>1. x \in Object /\ heap[x] # "free"
        BY <1>1, <2>2, HeldIsUsed
      <3>2. x \notin Holds(w)
        BY <1>1, <2>2 DEF IInv, Distinct
      <3> QED
        BY <3>1, <3>2 DEF Local
    <2> QED
      BY <2>1, <2>2
<1>2. ASSUME NEW v \in Worker PROVE Own(v)'
  <2>1. CASE v # w
    <3>1. /\ op'[v] = op[v] /\ call'[v] = call[v] /\ at'[v] = at[v]
          /\ conn'[v] = conn[v] /\ res'[v] = res[v] /\ user'[v] = user[v] /\ ctext'[v] = ctext[v]
      BY <2>1 DEF Local
    <3>2. /\ conn[v] # None => heap'[conn[v]] = heap[conn[v]]
          /\ res[v] # None => heap'[res[v]] = heap[res[v]]
          /\ user[v] # None => heap'[user[v]] = heap[user[v]]
          /\ ctext[v] # None => heap'[ctext[v]] = heap[ctext[v]]
      BY <1>1, <2>1 DEF Holds
    <3>3. Own(v)
      BY DEF IInv
    <3> QED
      BY <3>1, <3>2, <3>3 DEF Own
  <2> QED
    BY <2>1
<1>3. Distinct'
  <2> SUFFICES ASSUME NEW v \in Worker, NEW u \in Worker, v # u,
                      NEW x \in Holds(v)', x \in Holds(u)'
               PROVE  FALSE
    BY DEF Distinct, Holds
  <2>1. ASSUME NEW a \in Worker, a # w, x \in Holds(a), x \in Holds(w)' PROVE FALSE
    <3>1. x \in Object /\ heap[x] # "free"
      BY <2>1, HeldIsUsed
    <3>2. x \in Holds(w)
      BY <2>1, <3>1 DEF Local
    <3> QED
      BY <2>1, <3>2 DEF IInv, Distinct
  <2>2. CASE v = w
    BY <1>1, <2>1, <2>2
  <2>3. CASE u = w
    BY <1>1, <2>1, <2>3
  <2>4. CASE v # w /\ u # w
    BY <1>1, <2>4 DEF IInv, Distinct
  <2> QED
    BY <2>2, <2>3, <2>4
<1>4. Accounted'
  <2> SUFFICES ASSUME NEW x \in Object
               PROVE  /\ heap'[x] = "session" => \E v \in Worker : conn'[v] = x
                      /\ heap'[x] \notin Harmless => \E v \in Worker : x \in Holds(v)'
    BY DEF Accounted, Harmless, KnownLeaks
  <2>1. ASSUME heap'[x] = "session" PROVE \E v \in Worker : conn'[v] = x
    <3>1. CASE conn'[w] = x
      BY <3>1
    <3>2. CASE heap[x] = "session" /\ conn[w] # x
      <4>1. PICK v \in Worker : conn[v] = x
        BY <3>2 DEF IInv, Accounted
      <4> QED
        BY <3>2, <4>1 DEF Local
    <3> QED
      BY <2>1, <3>1, <3>2 DEF Local
  <2>2. ASSUME heap'[x] \notin Harmless PROVE \E v \in Worker : x \in Holds(v)'
    <3>1. CASE heap[x] \notin Harmless /\ x \notin Holds(w)
      <4>1. PICK v \in Worker : x \in Holds(v)
        BY <3>1 DEF IInv, Accounted
      <4> QED
        BY <1>1, <3>1, <4>1
    <3> QED
      BY <2>2, <3>1 DEF Local
  <2> QED
    BY <2>1, <2>2
<1> QED
  BY <1>2, <1>3, <1>4 DEF IInv
-----------------------------------------------------------------------------
(* One step each. *)

LEMMA FreshIsFree == Unused # {} => Fresh \in Object /\ heap[Fresh] = "free"
BY DEF Unused, Fresh

LEMMA BeginIInv ==
  ASSUME IInv, NEW w \in Worker, Begin(w)
  PROVE  IInv'
<1>1. PICK o \in Op : op' = [op EXCEPT ![w] = o] /\ call' = [call EXCEPT ![w] = First(o)]
  BY DEF Begin
<1>2. /\ at[w] = "idle" /\ at' = [at EXCEPT ![w] = "connect"]
      /\ UNCHANGED <<db, conn, res, user, ctext, heap>>
  BY DEF Begin, Goes
<1>3. First(o) \in Fn /\ (First(o) = "lookup" => o \notin ApiOps)
  BY DEF First, Fn, ApiOps
<1>4. TypeOK'
  BY <1>1, <1>2, <1>3 DEF IInv, TypeOK, Position
<1>5. Own(w)'
  BY <1>1, <1>2, <1>3 DEF IInv, TypeOK, Own
<1>6. Local(w)
  BY <1>1, <1>2 DEF IInv, TypeOK, Local, Holds, Own
<1> QED
  BY <1>4, <1>5, <1>6, LocalStep

LEMMA ConnectIInv ==
  ASSUME IInv, NEW w \in Worker, Connect(w)
  PROVE  IInv'
<1>1. at[w] = "connect" /\ UNCHANGED <<db, op, call, res, user, ctext>>
  BY DEF Connect
<1>2. Own(w) /\ conn[w] = None /\ res[w] = None
  BY <1>1 DEF IInv, Own
<1>3. CASE UNCHANGED <<conn, heap>> /\ at' = [at EXCEPT ![w] = "no"]
  <2>1. TypeOK'
    BY <1>1, <1>3 DEF IInv, TypeOK, Position
  <2>2. Own(w)'
    BY <1>1, <1>2, <1>3 DEF IInv, TypeOK, Own
  <2>3. Local(w)
    BY <1>1, <1>2, <1>3 DEF IInv, TypeOK, Local, Holds
  <2> QED
    BY <2>1, <2>2, <2>3, LocalStep
<1>4. CASE /\ Fresh \in Object /\ heap[Fresh] = "free"
           /\ heap' = [heap EXCEPT ![Fresh] = "session"]
           /\ conn' = [conn EXCEPT ![w] = Fresh]
           /\ at' = [at EXCEPT ![w] = "exec"]
  <2>1. TypeOK'
    BY <1>1, <1>4 DEF IInv, TypeOK, Position, Block
  <2>2. Own(w)'
    <3>1. /\ user[w] # None => user[w] # Fresh
          /\ ctext[w] # None => ctext[w] # Fresh
      BY <1>4, HeldIsUsed DEF Holds
    <3> QED
      BY <1>1, <1>2, <1>4, <3>1, ResourcesAssumption DEF IInv, TypeOK, Own
  <2>3. Local(w)
    <3>1. /\ \A v \in Worker \ {w} : at'[v] = at[v] /\ conn'[v] = conn[v]
          /\ conn'[w] = Fresh
          /\ Holds(w)' \subseteq Holds(w) \cup {Fresh}
      BY <1>1, <1>4 DEF IInv, TypeOK, Holds
    <3>2. \A x \in Object : heap'[x] = IF x = Fresh THEN "session" ELSE heap[x]
      BY <1>4 DEF IInv, TypeOK
    <3>3. \A x \in Holds(w) : heap[x] # "free"
      BY HeldIsUsed
    <3>4. ASSUME NEW x \in Object, heap'[x] = "session"
          PROVE  conn'[w] = x \/ (heap[x] = "session" /\ conn[w] # x)
      BY <1>2, <3>1, <3>2, <3>4, ResourcesAssumption
    <3>5. ASSUME NEW x \in Object, heap'[x] \notin Harmless
          PROVE  x \in Holds(w)' \/ (heap[x] \notin Harmless /\ x \notin Holds(w))
      <4>1. heap[x] \notin Harmless /\ x # Fresh
        BY <1>4, <3>2, <3>5 DEF Harmless
      <4>2. x \in Holds(w) => x \in Holds(w)'
        BY <1>1, <1>2 DEF Holds
      <4> QED
        BY <4>1, <4>2
    <3> QED
      BY <1>1, <1>4, <3>1, <3>2, <3>4, <3>5 DEF Local
  <2> QED
    BY <2>1, <2>2, <2>3, LocalStep
<1>5. CASE /\ Fresh \in Object /\ heap[Fresh] = "free"
           /\ heap' = [heap EXCEPT ![Fresh] = "failed"]
           /\ UNCHANGED conn
           /\ at' = [at EXCEPT ![w] = "no"]
  <2>1. TypeOK'
    BY <1>1, <1>5 DEF IInv, TypeOK, Position, Block
  <2>2. Own(w)'
    <3>1. /\ user[w] # None => user[w] # Fresh
          /\ ctext[w] # None => ctext[w] # Fresh
      BY <1>5, HeldIsUsed DEF Holds
    <3> QED
      BY <1>1, <1>2, <1>5, <3>1 DEF IInv, TypeOK, Own
  <2>3. Local(w)
    BY <1>1, <1>2, <1>5 DEF IInv, TypeOK, Local, Holds, Harmless, KnownLeaks
  <2> QED
    BY <2>1, <2>2, <2>3, LocalStep
<1> QED
  BY <1>3, <1>4, <1>5, FreshIsFree DEF Connect, Goes

LEMMA AnonymousIInv ==
  ASSUME IInv, NEW w \in Worker, Anonymous(w)
  PROVE  IInv'
<1>1. /\ at[w] = "connect" /\ at' = [at EXCEPT ![w] = "no"]
      /\ UNCHANGED <<db, op, call, conn, res, user, ctext, heap>>
  BY DEF Anonymous, Goes
<1>2. TypeOK'
  BY <1>1 DEF IInv, TypeOK, Position
<1>3. Own(w)'
  BY <1>1 DEF IInv, TypeOK, Own
<1>4. Local(w)
  BY <1>1 DEF IInv, TypeOK, Local, Holds, Own
<1> QED
  BY <1>2, <1>3, <1>4, LocalStep

LEMMA ExecuteIInv ==
  ASSUME IInv, NEW w \in Worker, Execute(w)
  PROVE  IInv'
<1>1. at[w] = "exec" /\ UNCHANGED <<db, op, call, conn, user, ctext>>
  BY DEF Execute
<1>2. Own(w) /\ res[w] = None /\ call[w] \in Fn
  BY <1>1 DEF IInv, Own
<1>3. CASE /\ Fresh \in Object /\ heap[Fresh] = "free"
           /\ heap' = [heap EXCEPT ![Fresh] = call[w]]
           /\ res' = [res EXCEPT ![w] = Fresh]
           /\ \E position \in {"good", "bad"} : at' = [at EXCEPT ![w] = position]
  <2>1. TypeOK'
    BY <1>1, <1>2, <1>3 DEF IInv, TypeOK, Position, Block
  <2>2. Own(w)'
    <3>1. /\ user[w] # None => user[w] # Fresh
          /\ ctext[w] # None => ctext[w] # Fresh
          /\ conn[w] # None => conn[w] # Fresh
      BY <1>3, HeldIsUsed DEF Holds
    <3> QED
      BY <1>1, <1>2, <1>3, <3>1, ResourcesAssumption DEF IInv, TypeOK, Own
  <2>3. Local(w)
    <3>1. call[w] # "session"
      BY <1>2, Names
    <3>2. \A x \in Object : heap'[x] = IF x = Fresh THEN call[w] ELSE heap[x]
      BY <1>3 DEF IInv, TypeOK
    <3>3. conn[w] # Fresh
      BY <1>1, <1>2, <1>3, HeldIsUsed DEF Own, Holds
    <3>4. Holds(w)' = Holds(w) \cup {Fresh}
      BY <1>1, <1>2, <1>3, ResourcesAssumption DEF IInv, TypeOK, Holds
    <3>5. \A x \in Object : heap'[x] = "session" =>
            conn'[w] = x \/ (heap[x] = "session" /\ conn[w] # x)
      BY <1>1, <3>1, <3>2
    <3>6. \A x \in Object : heap'[x] \notin Harmless =>
            x \in Holds(w)' \/ (heap[x] \notin Harmless /\ x \notin Holds(w))
      BY <3>2, <3>4
    <3>7. \A x \in Object : heap'[x] = heap[x] \/ x \in Holds(w) \/ heap[x] = "free"
      BY <1>3, <3>2
    <3>8. \A x \in Holds(w)' : x \in Holds(w) \/ (x \in Object /\ heap[x] = "free")
      BY <1>3, <3>4
    <3> QED
      BY <1>1, <1>3, <3>5, <3>6, <3>7, <3>8 DEF IInv, TypeOK, Local
  <2> QED
    BY <2>1, <2>2, <2>3, LocalStep
<1>4. CASE at' = [at EXCEPT ![w] = "bad"] /\ UNCHANGED <<res, heap>>
  <2>1. TypeOK'
    BY <1>1, <1>4 DEF IInv, TypeOK, Position
  <2>2. Own(w)'
    BY <1>1, <1>2, <1>4 DEF IInv, TypeOK, Own
  <2>3. Local(w)
    BY <1>1, <1>4 DEF IInv, TypeOK, Local, Holds
  <2> QED
    BY <2>1, <2>2, <2>3, LocalStep
<1> QED
  BY <1>3, <1>4, FreshIsFree DEF Execute, Goes

\* A step that frees what it holds, but for known leaks.
LEMMA FreeingIsLocal ==
  ASSUME IInv, NEW w \in Worker, NEW freed,
         heap' = Without(freed), freed \subseteq Holds(w) \cup {None},
         \A v \in Worker \ {w} :
           /\ op'[v] = op[v] /\ call'[v] = call[v] /\ at'[v] = at[v]
           /\ conn'[v] = conn[v] /\ res'[v] = res[v] /\ user'[v] = user[v] /\ ctext'[v] = ctext[v],
         conn[w] # None => conn[w] \in freed,
         Holds(w)' \subseteq Holds(w),
         \A x \in Holds(w) : x \in freed \/ x \in Holds(w)' \/ heap[x] \in KnownLeaks
  PROVE  Local(w)
<1>1. \A x \in Object : heap'[x] = IF x \in freed THEN "free" ELSE heap[x]
  BY DEF Without
<1>2. \A x \in Object : heap'[x] = heap[x] \/ x \in Holds(w) \/ heap[x] = "free"
  BY <1>1, ResourcesAssumption
<1>3. \A x \in Object :
        heap'[x] = "session" => conn'[w] = x \/ (heap[x] = "session" /\ conn[w] # x)
  BY <1>1, ResourcesAssumption
<1>4. \A x \in Object :
        heap'[x] \notin Harmless =>
          x \in Holds(w)' \/ (heap[x] \notin Harmless /\ x \notin Holds(w))
  BY <1>1 DEF Harmless
<1> QED
  BY <1>2, <1>3, <1>4 DEF Local

\* The end of a function that frees its connection and its result.
LEMMA ReturnIInv ==
  ASSUME IInv, NEW w \in Worker, at[w] \in {"good", "bad"},
         NEW position \in {"yes", "no"}, position = "yes" => call[w] \notin Handing,
         Return(w, position, {conn[w], res[w]}),
         res' = [res EXCEPT ![w] = None], UNCHANGED <<db, op, call, user, ctext>>
  PROVE  IInv'
<1>1. /\ at' = [at EXCEPT ![w] = position]
      /\ heap' = Without({conn[w], res[w]})
      /\ conn' = [conn EXCEPT ![w] = None]
  BY DEF Return, Goes
<1>2. Own(w)
  BY DEF IInv
<1>3. TypeOK'
  BY <1>1 DEF IInv, TypeOK, Position, Without, Block
<1>4. Local(w)
  <2>1. Holds(w)' = {user[w], ctext[w]} \ {None}
    BY <1>1 DEF Holds, IInv, TypeOK
  <2>2. Holds(w)' \subseteq Holds(w)
        /\ \A x \in Holds(w) : x \in {conn[w], res[w]} \/ x \in Holds(w)'
    BY <2>1 DEF Holds
  <2>3. {conn[w], res[w]} \subseteq Holds(w) \cup {None}
    BY DEF Holds
  <2> QED
    BY <1>1, <2>2, <2>3, FreeingIsLocal DEF IInv, TypeOK
<1>5. Own(w)'
  <2>1. /\ user[w] # None => user[w] \in Object /\ user[w] \notin {conn[w], res[w]}
        /\ ctext[w] # None => ctext[w] \in Object /\ ctext[w] \notin {conn[w], res[w]}
    BY PointersDiffer
  <2>2. /\ user[w] # None => heap'[user[w]] = heap[user[w]]
        /\ ctext[w] # None => heap'[ctext[w]] = heap[ctext[w]]
    BY <1>1, <2>1 DEF Without
  <2> QED
    BY <1>1, <1>2, <2>2 DEF IInv, TypeOK, Own
<1> QED
  BY <1>3, <1>4, <1>5, LocalStep

LEMMA FailIInv ==
  ASSUME IInv, NEW w \in Worker, Fail(w)
  PROVE  IInv'
BY ReturnIInv DEF Fail, OnError

LEMMA ReadValueIInv ==
  ASSUME IInv, NEW w \in Worker, ReadValue(w)
  PROVE  IInv'
<1>1. PICK position \in {"yes", "no"} : Return(w, position, {conn[w], res[w]})
  BY DEF ReadValue
<1> QED
  BY <1>1, ReturnIInv DEF ReadValue, Handing

LEMMA ReadUserIInv ==
  ASSUME IInv, NEW w \in Worker, ReadUser(w)
  PROVE  IInv'
<1>1. /\ at[w] = "good" /\ call[w] = "lookup"
      /\ res' = [res EXCEPT ![w] = None] /\ UNCHANGED <<db, op, call, ctext>>
  BY DEF ReadUser
<1>2. CASE Return(w, "no", {conn[w], res[w]}) /\ UNCHANGED user
  BY <1>1, <1>2, ReturnIInv
<1>3. CASE /\ Fresh \in Object /\ heap[Fresh] = "free"
           /\ heap' = [Without({conn[w], res[w]}) EXCEPT ![Fresh] = op[w]]
           /\ user' = [user EXCEPT ![w] = Fresh]
           /\ conn' = [conn EXCEPT ![w] = None]
           /\ at' = [at EXCEPT ![w] = "yes"]
  <2>1. /\ Own(w) /\ user[w] = None /\ op[w] \in Op /\ op[w] \notin ApiOps
        /\ conn[w] # Fresh /\ res[w] # Fresh /\ ctext[w] # Fresh
        /\ ctext[w] # None => ctext[w] \in Object /\ ctext[w] \notin {conn[w], res[w]}
    BY <1>1, <1>3, HeldIsUsed, PointersDiffer, ResourcesAssumption DEF IInv, Own, Holds
  <2>2. op[w] \in Block /\ op[w] # "session"
    BY <2>1, ResourcesAssumption, Names DEF Block
  <2>3. TypeOK'
    BY <1>1, <1>3, <2>2 DEF IInv, TypeOK, Position, Without, Block
  <2>4. \A x \in Object :
          heap'[x] = IF x = Fresh THEN op[w]
                     ELSE IF x \in {conn[w], res[w]} THEN "free" ELSE heap[x]
    BY <1>3 DEF Without
  <2>5. Own(w)'
    <3>1. /\ at'[w] = "yes" /\ conn'[w] = None /\ res'[w] = None /\ user'[w] = Fresh
          /\ op'[w] = op[w] /\ call'[w] = "lookup" /\ ctext'[w] = ctext[w]
      BY <1>1, <1>3 DEF IInv, TypeOK
    <3>2. /\ heap'[Fresh] = op[w] /\ "lookup" \in Fn
          /\ ctext[w] # None => heap'[ctext[w]] = heap[ctext[w]]
      BY <1>3, <2>1, <2>4 DEF Fn
    <3> QED
      BY <2>1, <3>1, <3>2 DEF Own, Handing
  <2>6. Local(w)
    <3>1. /\ Holds(w) = {conn[w], res[w], ctext[w]} \ {None}
          /\ Holds(w)' = {Fresh, ctext[w]} \ {None}
      BY <1>1, <1>3, <2>1, ResourcesAssumption DEF Holds, IInv, TypeOK
    <3>2. \A x \in Object : heap'[x] = heap[x] \/ x \in Holds(w) \/ heap[x] = "free"
      BY <1>3, <2>4, <3>1, ResourcesAssumption
    <3>3. \A x \in Object : heap'[x] = "session" => heap[x] = "session" /\ conn[w] # x
      BY <2>2, <2>4
    <3>4. \A x \in Object : heap'[x] \notin Harmless =>
            x \in Holds(w)' \/ (heap[x] \notin Harmless /\ x \notin Holds(w))
      <4>1. /\ "free" \in Harmless /\ Fresh \in Holds(w)'
            /\ \A x \in Holds(w) : x \in Holds(w)' \/ x \in {conn[w], res[w]}
        BY <1>3, <3>1, ResourcesAssumption DEF Harmless
      <4> QED
        BY <2>4, <4>1
    <3>5. \A v \in Worker \ {w} :
            /\ op'[v] = op[v] /\ call'[v] = call[v] /\ at'[v] = at[v]
            /\ conn'[v] = conn[v] /\ res'[v] = res[v] /\ user'[v] = user[v] /\ ctext'[v] = ctext[v]
      BY <1>1, <1>3 DEF IInv, TypeOK
    <3>6. \A x \in Holds(w)' : x \in Holds(w) \/ (x \in Object /\ heap[x] = "free")
      BY <1>3, <3>1
    <3> QED
      BY <3>2, <3>3, <3>4, <3>5, <3>6 DEF Local
  <2> QED
    BY <2>3, <2>5, <2>6, LocalStep
<1> QED
  BY <1>2, <1>3, FreshIsFree DEF ReadUser, Goes

\* The two functions whose result outlives them.
LEMMA KeepingIInv ==
  ASSUME IInv, NEW w \in Worker, HandOver(w) \/ CreateReturns(w)
  PROVE  IInv'
<1>1. /\ at[w] = "good" /\ at' = [at EXCEPT ![w] = "yes"]
      /\ heap' = Without({conn[w]})
      /\ conn' = [conn EXCEPT ![w] = None]
      /\ UNCHANGED <<db, op, call, user, ctext>>
      /\ \/ call[w] \in Handing /\ UNCHANGED res
         \/ call[w] = "create" /\ res' = [res EXCEPT ![w] = None]
  BY DEF HandOver, CreateReturns, Return, Goes, HandedFrees
<1>2. Own(w) /\ conn[w] # None /\ res[w] # None /\ heap[res[w]] = call[w]
      /\ heap[conn[w]] = "session" /\ call[w] \in Fn
  BY <1>1 DEF IInv, Own
<1>3. TypeOK'
  BY <1>1 DEF IInv, TypeOK, Position, Without, Block
<1>4. /\ res[w] # conn[w] /\ res[w] \in Object
      /\ user[w] # None => user[w] # conn[w] /\ user[w] \in Object
      /\ ctext[w] # None => ctext[w] # conn[w] /\ ctext[w] \in Object
  BY <1>1, <1>2, PointersDiffer
<1>5. /\ heap'[res[w]] = heap[res[w]]
      /\ user[w] # None => heap'[user[w]] = heap[user[w]]
      /\ ctext[w] # None => heap'[ctext[w]] = heap[ctext[w]]
  BY <1>1, <1>4 DEF Without
<1>6. Own(w)'
  BY <1>1, <1>2, <1>5 DEF IInv, TypeOK, Own, Handing
<1>7. Local(w)
  <2>1. Holds(w)' \subseteq Holds(w)
    BY <1>1 DEF Holds, IInv, TypeOK
  <2>2. ASSUME NEW x \in Holds(w), x # conn[w]
        PROVE  x \in Holds(w)' \/ heap[x] \in KnownLeaks
    BY <1>1, <1>2, <2>2 DEF Holds, IInv, TypeOK, KnownLeaks
  <2>3. {conn[w]} \subseteq Holds(w) \cup {None}
    BY DEF Holds
  <2> QED
    BY <1>1, <2>1, <2>2, <2>3, FreeingIsLocal DEF IInv, TypeOK
<1> QED
  BY <1>3, <1>6, <1>7, LocalStep

LEMMA CallNextIInv ==
  ASSUME IInv, NEW w \in Worker, CallNext(w)
  PROVE  IInv'
<1> PICK f \in After(op[w], call[w], Success(w)) \ {"none"} :
         call' = [call EXCEPT ![w] = f]
  BY DEF CallNext
<1>1. /\ at[w] \in {"yes", "no"}
      /\ call' = [call EXCEPT ![w] = f]
      /\ at' = [at EXCEPT ![w] = "connect"]
      /\ heap' = Without({res[w]})
      /\ res' = [res EXCEPT ![w] = None]
      /\ UNCHANGED <<db, op, conn, user, ctext>>
  BY DEF CallNext, Goes
<1>2. Own(w) /\ conn[w] = None
  BY <1>1 DEF IInv, Own
<1>3. f \in Fn /\ f # "lookup"
  BY DEF After, Fn
<1>4. TypeOK'
  BY <1>1, <1>3 DEF IInv, TypeOK, Position, Without, Block
<1>5. Local(w)
  <2>1. Holds(w)' \subseteq Holds(w) /\ \A x \in Holds(w) : x \in {res[w]} \/ x \in Holds(w)'
    BY <1>1, <1>2 DEF Holds, IInv, TypeOK
  <2>2. {res[w]} \subseteq Holds(w) \cup {None}
    BY DEF Holds
  <2> QED
    BY <1>1, <1>2, <2>1, <2>2, FreeingIsLocal DEF IInv, TypeOK
<1>6. Own(w)'
  <2>1. /\ user[w] # None => user[w] \in Object /\ user[w] # res[w]
        /\ ctext[w] # None => ctext[w] \in Object /\ ctext[w] # res[w]
    BY <1>1, PointersDiffer
  <2>2. /\ user[w] # None => heap'[user[w]] = heap[user[w]]
        /\ ctext[w] # None => heap'[ctext[w]] = heap[ctext[w]]
    BY <1>1, <2>1 DEF Without
  <2> QED
    BY <1>1, <1>2, <1>3, <2>2 DEF IInv, TypeOK, Own
<1> QED
  BY <1>4, <1>5, <1>6, LocalStep

LEMMA AnswerIInv ==
  ASSUME IInv, NEW w \in Worker, Answer(w)
  PROVE  IInv'
<1>1. /\ at[w] \in {"yes", "no"}
      /\ op' = [op EXCEPT ![w] = "none"]
      /\ call' = [call EXCEPT ![w] = "none"]
      /\ res' = [res EXCEPT ![w] = None]
      /\ user' = [user EXCEPT ![w] = None]
      /\ ctext' = [ctext EXCEPT ![w] = None]
      /\ at' = [at EXCEPT ![w] = "idle"]
      /\ UNCHANGED <<db, conn>>
  BY DEF Answer, Goes
<1>2. PICK freed \in {LastFrees(w), LastFrees(w) \cup {ctext[w]}} :
        /\ heap' = Without(freed)
        /\ ctext[w] \in freed \/ Unrendered(w) \/ LogsIn(w)
  BY DEF Answer
<1>3. Own(w) /\ conn[w] = None /\ op[w] \in Op
  BY <1>1 DEF IInv, Own
<1>4. TypeOK'
  BY <1>1, <1>2 DEF IInv, TypeOK, Position, Without, Block
<1>5. Local(w)
  <2>1. Holds(w)' = {} /\ freed \subseteq Holds(w) \cup {None}
    BY <1>1, <1>3 DEF Holds, LastFrees, IInv, TypeOK
  <2>2. ASSUME NEW x \in Holds(w), x \notin freed PROVE heap[x] \in KnownLeaks
    <3>1. CASE x = user[w]
      <4>1. user[w] # None /\ op[w] \notin FreesUser
        BY <2>2, <3>1 DEF Holds, LastFrees
      <4>2. heap[x] = op[w] /\ op[w] \in Ops /\ op[w] \notin ApiOps
        BY <1>3, <3>1, <4>1, ResourcesAssumption DEF Own
      <4> QED
        BY <4>1, <4>2
           DEF Ops, FormOps, ApiOps, OpenOps, ClosedOps, FreesUser, KnownLeaks
    <3>2. CASE x = ctext[w]
      <4>1. ctext[w] # None /\ (Unrendered(w) \/ LogsIn(w))
        BY <1>2, <2>2, <3>2 DEF Holds
      <4>2. heap[x] = Page(op[w])
        BY <1>3, <3>2, <4>1 DEF Own
      <4> QED
        BY <4>1, <4>2 DEF Unrendered, LogsIn, Page, FormOps, KnownLeaks
    <3> QED
      BY <1>3, <2>2, <3>1, <3>2 DEF Holds, LastFrees
  <2> QED
    BY <1>1, <1>2, <1>3, <2>1, <2>2, FreeingIsLocal DEF IInv, TypeOK
<1>6. Own(w)'
  BY <1>1, <1>3 DEF IInv, TypeOK, Own, Fn, Handing
<1> QED
  BY <1>4, <1>5, <1>6, LocalStep

LEMMA InitContextIInv ==
  ASSUME IInv, NEW w \in Worker, InitContext(w), ~Reset
  PROVE  IInv'
<1>1. /\ Fresh \in Object /\ heap[Fresh] = "free"
      /\ heap' = [heap EXCEPT ![Fresh] = Page(op[w])]
      /\ ctext' = [ctext EXCEPT ![w] = Fresh]
      /\ UNCHANGED <<db, op, call, at, conn, res, user>>
  BY FreshIsFree DEF InitContext
<1>2. /\ ctext[w] = None /\ call[w] = "lookup"
      /\ at[w] \in {"connect", "no", "yes"}
  BY DEF InitContext, NeedsContext
<1>3. Own(w) /\ conn[w] = None /\ res[w] = None /\ Page(op[w]) \in Pages
  BY <1>2, PageIsKnown DEF IInv, Own, Handing
<1>4. Page(op[w]) # "session"
  BY <1>3, Names
<1>5. \A x \in Object : heap'[x] = IF x = Fresh THEN Page(op[w]) ELSE heap[x]
  BY <1>1 DEF IInv, TypeOK
<1>6. TypeOK'
  BY <1>1, <1>3 DEF IInv, TypeOK, Block
<1>7. Own(w)'
  <2>1. user[w] # None => user[w] # Fresh
    BY <1>1, HeldIsUsed DEF Holds
  <2> QED
    BY <1>1, <1>2, <1>3, <2>1 DEF IInv, TypeOK, Own
<1>8. Local(w)
  <2>1. Holds(w)' = Holds(w) \cup {Fresh}
    BY <1>1, <1>2, ResourcesAssumption DEF IInv, TypeOK, Holds
  <2>2. /\ \A v \in Worker \ {w} : ctext'[v] = ctext[v]
        /\ \A x \in Object : heap'[x] = heap[x] \/ x \in Holds(w) \/ heap[x] = "free"
        /\ \A x \in Holds(w)' : x \in Holds(w) \/ (x \in Object /\ heap[x] = "free")
    BY <1>1, <1>5, <2>1 DEF IInv, TypeOK
  <2>3. \A x \in Object : heap'[x] = "session" => heap[x] = "session" /\ conn[w] # x
    BY <1>3, <1>4, <1>5, ResourcesAssumption
  <2>4. \A x \in Object : heap'[x] \notin Harmless =>
          x \in Holds(w)' \/ (heap[x] \notin Harmless /\ x \notin Holds(w))
    BY <1>5, <2>1
  <2> QED
    BY <1>1, <2>2, <2>3, <2>4 DEF Local
<1> QED
  BY <1>6, <1>7, <1>8, LocalStep

LEMMA ResetIInv ==
  ASSUME IInv, Reset
  PROVE  IInv'
<1>1. TypeOK'
  BY DEF IInv, TypeOK, Reset, Position, Block
<1>2. \A w \in Worker : Own(w)'
  BY DEF Own, Reset, Handing
<1>3. Distinct' /\ Accounted'
  BY DEF Distinct, Accounted, Holds, Reset, Harmless
<1> QED
  BY <1>1, <1>2, <1>3 DEF IInv

LEMMA InitIInv == Init => IInv
BY DEF Init, IInv, TypeOK, Own, Distinct, Accounted, Holds, Harmless, Position, Block, Handing

LEMMA NextIInv == IInv /\ [Next]_vars => IInv'
<1> SUFFICES ASSUME IInv, [Next]_vars PROVE IInv'
  OBVIOUS
<1>1. CASE UNCHANGED <<op, call, at, conn, res, user, ctext, heap>> /\ db' \in {"up", "down", "hung"}
  <2>1. TypeOK'
    BY <1>1 DEF IInv, TypeOK
  <2>2. \A w \in Worker : Own(w)' /\ Holds(w)' = Holds(w)
    BY <1>1 DEF IInv, Own, Holds
  <2>3. Distinct' /\ Accounted'
    BY <1>1, <2>2 DEF IInv, Distinct, Accounted
  <2> QED
    BY <2>1, <2>2, <2>3 DEF IInv
<1>2. CASE UNCHANGED vars
  BY <1>1, <1>2 DEF vars, IInv, TypeOK
<1>3. CASE DatabaseTurns
  BY <1>1, <1>3 DEF DatabaseTurns
<1>4. CASE Restart
  BY <1>4, ResetIInv DEF Restart
<1>5. ASSUME NEW w \in Worker, Begin(w) \/ Advance(w) PROVE IInv'
  BY <1>5, BeginIInv, ConnectIInv, AnonymousIInv, ExecuteIInv, FailIInv, ReadValueIInv,
     ReadUserIInv, ResetIInv, KeepingIInv, InitContextIInv, CallNextIInv, AnswerIInv
     DEF Advance, NoMemoryForUser
<1> QED
  BY <1>2, <1>3, <1>4, <1>5 DEF Next

THEOREM Invariance == Spec => []IInv
BY InitIInv, NextIInv, PTL DEF Spec

-----------------------------------------------------------------------------
(* The theorems. *)

\* Every variable keeps its type.
THEOREM TypeCorrect == Spec => []TypeOK
<1>1. IInv => TypeOK
  BY DEF IInv
<1> QED
  BY <1>1, Invariance, PTL

\* No handler uses a connection, a result, a user or a template context after its
\* memory is freed, frees one twice, or shares one with another thread.
THEOREM PointersAreSound == Spec => []PointersSound
<1>1. IInv => PointersSound
  BY DEF IInv, Own, Distinct, PointersSound
<1> QED
  BY <1>1, Invariance, PTL

\* Of its connections, results, users and template contexts the server loses
\* none but those of KnownLeaks, whatever fails.
THEOREM LeaksAreKnown == Spec => []OnlyKnownLeaks
<1>1. IInv => OnlyKnownLeaks
  BY DEF IInv, Accounted, Harmless, OnlyKnownLeaks, Held
<1> QED
  BY <1>1, Invariance, PTL

\* The server has at most one connection open for each of its threads.
THEOREM SessionsAreBounded == Spec => []SessionsBounded
<1>1. IInv => SessionsBounded
  <2> SUFFICES ASSUME IInv PROVE Cardinality(Sessions) <= Cardinality(Worker)
    BY DEF SessionsBounded
  <2> DEFINE Connected == {w \in Worker : conn[w] # None}
             owned == [w \in Connected |-> conn[w]]
  <2>1. Connected \subseteq Worker /\ IsFiniteSet(Connected)
        /\ Cardinality(Connected) <= Cardinality(Worker)
    BY FS_Subset, ResourcesAssumption
  <2>2. \A w \in Connected : conn[w] \in Sessions
    BY DEF IInv, TypeOK, Own, Sessions
  <2>3. \A x \in Sessions : \E w \in Connected : conn[w] = x
    BY ResourcesAssumption DEF IInv, Accounted, Sessions
  <2>4. owned \in Surjection(Connected, Sessions)
    BY <2>2, <2>3 DEF Surjection
  <2>5. IsFiniteSet(Sessions) /\ Cardinality(Sessions) <= Cardinality(Connected)
    BY <2>1, <2>4, FS_Surjection
  <2>6. Cardinality(Sessions) \in Nat /\ Cardinality(Connected) \in Nat
        /\ Cardinality(Worker) \in Nat
    BY <2>1, <2>5, FS_CardinalityType, ResourcesAssumption
  <2> QED
    BY <2>1, <2>5, <2>6
<1> QED
  BY <1>1, Invariance, PTL
=============================================================================
