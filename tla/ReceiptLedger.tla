--------------------------- MODULE ReceiptLedger ---------------------------
(***************************************************************************)
(* What the durable inbox promises its producers and recipients, said of   *)
(* the published segments alone (inbox.rs, module documentation):          *)
(*                                                                         *)
(*   - a recipient's seqs are handed out in order and never twice;         *)
(*   - a message only moves forward, Held -> Enqueued -> Delivered ->      *)
(*     Processed -> gone, however many of those steps one segment write    *)
(*     publishes at once, and leaves Held by activation alone;             *)
(*   - a request id stands for one message for good, and every Ok reply    *)
(*     names that message, which is durable when the reply is sent.        *)
(***************************************************************************)
EXTENDS Naturals

CONSTANTS Recipients, Requests, Nil, MaxMessages

VARIABLES
  ledger,    \* what a restart would know of each message
  bound,     \* the message each request id stands for, or Nil
  replies    \* the messages each request id was answered with

vars == <<ledger, bound, replies>>

Seqs   == 0 .. MaxMessages - 1
Status == {"free", "held", "enqueued", "delivered", "processed", "gone"}

Later(status) ==
  CASE status = "free"      -> {"free"}
    [] status = "held"      -> {"held", "gone"}
    [] status = "enqueued"  -> {"enqueued", "delivered", "processed", "gone"}
    [] status = "delivered" -> {"delivered", "processed", "gone"}
    [] status = "processed" -> {"processed", "gone"}
    [] status = "gone"      -> {"gone"}

\* What a write of r's segment may publish: r's other messages move forward, and
\* nobody else's move.
Forward(r, entering) ==
  /\ ledger' \in [Recipients -> [Seqs -> Status]]
  /\ \A o \in Recipients \ {r} : ledger'[o] = ledger[o]
  /\ \A s \in Seqs \ entering : ledger'[r][s] \in Later(ledger[r][s])

FirstFree(l, s) == l[s] = "free" /\ \A t \in Seqs : t < s => l[t] # "free"

Told(q) == [replies EXCEPT ![q] = @ \cup {bound'[q]}]

Init ==
  /\ ledger  = [r \in Recipients |-> [s \in Seqs |-> "free"]]
  /\ bound   = [q \in Requests |-> Nil]
  /\ replies = [q \in Requests |-> {}]

\* A message enters and its request id, when it has one, is bound to it; the
\* reply can be lost.
Accept(r, s, status, q) ==
  /\ FirstFree(ledger[r], s)
  /\ Forward(r, {s})
  /\ ledger'[r][s] = status
  /\ \/ q = Nil /\ UNCHANGED <<bound, replies>>
     \/ /\ q \in Requests
        /\ bound[q] = Nil
        /\ bound' = [bound EXCEPT ![q] = <<r, s>>]
        /\ replies' \in {replies, Told(q)}

\* A held message becomes deliverable.
Activate(r, s, q) ==
  /\ ledger[r][s] = "held"
  /\ bound[q] = <<r, s>>
  /\ Forward(r, {s})
  /\ ledger'[r][s] = "enqueued"
  /\ UNCHANGED bound
  /\ replies' = Told(q)

\* Messages move forward: delivered, acknowledged, compacted, flushed.
Advance(r) ==
  /\ Forward(r, {})
  /\ UNCHANGED <<bound, replies>>

\* A repeated request is answered as before.
Replay(q) ==
  /\ bound[q] # Nil
  /\ UNCHANGED <<ledger, bound>>
  /\ replies' = Told(q)

Next ==
  \/ \E r \in Recipients, s \in Seqs, status \in {"held", "enqueued"},
        q \in Requests \cup {Nil} : Accept(r, s, status, q)
  \/ \E r \in Recipients, s \in Seqs, q \in Requests : Activate(r, s, q)
  \/ \E r \in Recipients : Advance(r)
  \/ \E q \in Requests : Replay(q)

Spec == Init /\ [][Next]_vars
=============================================================================
