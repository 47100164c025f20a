--------------------------- MODULE LedgerContract ---------------------------
(***************************************************************************)
(* What the session journal promises its callers, with no files, crashes   *)
(* or handlers in sight: a record that was acknowledged is in the ledger   *)
(* at its place for ever, and a privileged effect begins only when the     *)
(* ledger already tells of it.  SessionJournal.tla implements this.        *)
(***************************************************************************)
EXTENDS Naturals, Sequences

CONSTANT Operations

VARIABLES
    ledger,    \* the acknowledged records, in order
    effects    \* operations whose effect was begun

ledgerVars == <<ledger, effects>>

Tells(o) == \E i \in 1..Len(ledger) : ledger[i].kind = "started" /\ ledger[i].op = o

LedgerInit == ledger = <<>> /\ effects = {}

\* One acknowledgement can vouch for earlier records nobody was told of.
Acknowledge ==
    /\ Len(ledger) < Len(ledger')
    /\ SubSeq(ledger', 1, Len(ledger)) = ledger
    /\ UNCHANGED effects

Perform(o) ==
    /\ Tells(o) /\ o \notin effects
    /\ effects' = effects \cup {o}
    /\ UNCHANGED ledger

LedgerNext == Acknowledge \/ \E o \in Operations : Perform(o)

LedgerSpec == LedgerInit /\ [][LedgerNext]_ledgerVars
=============================================================================
