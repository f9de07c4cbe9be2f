------------------------------ MODULE Mailbox ------------------------------
(***************************************************************************)
(* What the outbox promises of a record: once kept, it is kept until it is *)
(* settled (the server answered it) or its owner withdraws it.  Nothing    *)
(* else takes a letter out of the mailbox, and nothing unsettles one.      *)
(***************************************************************************)
CONSTANT Letters

VARIABLES kept, settled, withdrawn

mvars == <<kept, settled, withdrawn>>

Init == kept = {} /\ settled = {} /\ withdrawn = {}

\* A letter is put in; its answer may already be known.
Keep(m) ==
  /\ m \in Letters \ kept
  /\ kept' = kept \cup {m}
  /\ settled' \in {settled, settled \cup {m}}
  /\ UNCHANGED withdrawn

Settle(S) ==
  /\ S \subseteq Letters
  /\ settled' = settled \cup S
  /\ UNCHANGED <<kept, withdrawn>>

\* Settled letters are thrown away.
Release(S) ==
  /\ S \subseteq kept \cap settled
  /\ kept' = kept \ S
  /\ UNCHANGED <<settled, withdrawn>>

\* The owner takes letters back.
Withdraw(S) ==
  /\ S \subseteq kept
  /\ kept' = kept \ S
  /\ withdrawn' = withdrawn \cup S
  /\ UNCHANGED settled

Next ==
  \/ \E m \in Letters : Keep(m)
  \/ \E S \in SUBSET Letters : Settle(S) \/ Release(S) \/ Withdraw(S)

Spec == Init /\ [][Next]_mvars
=============================================================================
