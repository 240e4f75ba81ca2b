------------------------------ MODULE JsonTree ------------------------------
(***************************************************************************)
(* What jsense promises its caller while it reads a document, without the  *)
(* chunks: containers that are sequences of any length, each known by a    *)
(* name of its own and each in one other but the root.  Keys and values    *)
(* arrive at the innermost open container, and at no other.  Either the    *)
(* whole document is handed over when everything was closed, or nothing.   *)
(***************************************************************************)
EXTENDS Naturals, Sequences

CONSTANTS
  Keys,     \* the texts a key may have
  NoKey,    \* an element without a key
  Values,   \* the scalars of a document
  Ids,      \* the names of containers
  NoId      \* none of them

VARIABLES
  phase,    \* "parsing", "refused" or "accepted"
  root,     \* the outermost container
  open,     \* the containers that are open, from the outside in
  elements  \* by container what is in it

vars == <<phase, root, open, elements>>

\* An element: a key that waits for "nothing" yet, a "value" or a "container".
Element(key, has, value) == [key |-> key, has |-> has, value |-> value]

\* A key waits for what belongs to it; another key takes its place.
Waiting(es) == es # <<>> /\ es[Len(es)].has = "nothing"
Settled(es) == IF Waiting(es) THEN SubSeq(es, 1, Len(es) - 1) ELSE es
WithKey(es, key) == Append(Settled(es), Element(key, "nothing", 0))
WithThing(es, has, value) ==
  Append(Settled(es), Element(IF Waiting(es) THEN es[Len(es)].key ELSE NoKey, has, value))

Innermost == open[Len(open)]
Nothing == [c \in {} |-> <<>>]

Init == phase = "parsing" /\ root = NoId /\ open = <<>> /\ elements = Nothing

AddKey ==
  /\ open # <<>>
  /\ \E key \in Keys : elements' = [elements EXCEPT ![Innermost] = WithKey(@, key)]
  /\ UNCHANGED <<phase, root, open>>

AddValue ==
  /\ open # <<>>
  /\ \E v \in Values : elements' = [elements EXCEPT ![Innermost] = WithThing(@, "value", v)]
  /\ UNCHANGED <<phase, root, open>>

OpenRoot ==
  /\ root = NoId
  /\ \E c \in Ids : root' = c /\ open' = <<c>> /\ elements' = [d \in {c} |-> <<>>]
  /\ UNCHANGED phase

Open ==
  /\ open # <<>>
  /\ \E c \in Ids \ DOMAIN elements :
       /\ open' = Append(open, c)
       /\ elements' = [d \in DOMAIN elements \cup {c} |->
                         CASE d = c         -> <<>>
                           [] d = Innermost -> WithThing(elements[d], "container", c)
                           [] OTHER         -> elements[d]]
  /\ UNCHANGED <<phase, root>>

Close ==
  /\ open # <<>>
  /\ open' = SubSeq(open, 1, Len(open) - 1)
  /\ UNCHANGED <<phase, root, elements>>

Accept ==
  /\ open = <<>>
  /\ phase' = "accepted"
  /\ UNCHANGED <<root, open, elements>>

Refuse ==
  /\ phase' = "refused"
  /\ root' = NoId /\ open' = <<>> /\ elements' = Nothing

Next ==
  /\ phase = "parsing"
  /\ AddKey \/ AddValue \/ OpenRoot \/ Open \/ Close \/ Accept \/ Refuse

Spec == Init /\ [][Next]_vars
=============================================================================
