---------------------------- MODULE PayloadPipe ----------------------------
(***************************************************************************)
(* What a link of the system promises its two ends, framing and byte       *)
(* streams forgotten: the payloads handed in at one end come out at the    *)
(* other, once each, in order, all of them.  Once the line has been        *)
(* damaged some may be left out; still nothing else comes out, nothing     *)
(* twice and nothing out of order.                                         *)
(***************************************************************************)
EXTENDS Naturals, Sequences, SequencesExt

CONSTANT Payloads

VARIABLES sent,       \* the payloads handed in, in order
          forwarded,  \* those that have come out
          damaged     \* whether the line has been damaged

vars == << sent, forwarded, damaged >>

Init == sent = << >> /\ forwarded = << >> /\ damaged = FALSE

Send == /\ \E p \in Payloads : sent' = Append(sent, p)
        /\ UNCHANGED << forwarded, damaged >>

Damage == /\ damaged' = TRUE
          /\ UNCHANGED << sent, forwarded >>

Forward == /\ ~damaged
           /\ Len(forwarded) < Len(sent)
           /\ forwarded' = Append(forwarded, sent[Len(forwarded) + 1])
           /\ UNCHANGED << sent, damaged >>

(* s is t with some elements left out. *)
Subsequence(s, t) ==
  \E from \in [DOMAIN s -> DOMAIN t] :
     /\ \A i, j \in DOMAIN s : i < j => from[i] < from[j]
     /\ \A i \in DOMAIN s : s[i] = t[from[i]]

ForwardLater == /\ damaged
                /\ \E p \in ToSet(sent) : forwarded' = Append(forwarded, p)
                /\ Subsequence(forwarded', sent)
                /\ UNCHANGED << sent, damaged >>

Next == Send \/ Damage \/ Forward \/ ForwardLater

Spec == Init /\ [][Next]_vars /\ WF_vars(Forward)

=============================================================================
