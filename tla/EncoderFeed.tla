---------------------------- MODULE EncoderFeed ----------------------------
(***************************************************************************)
(* What the recorder expects of one encoder input, whether video frames or *)
(* audio blocks: the encoder reads the submitted blocks in order, each at  *)
(* most once and nothing after a failed write, and stopping reports        *)
(* success only when the encoder has read every block.                     *)
(***************************************************************************)
EXTENDS Naturals, Sequences

VARIABLES
  sent,   \* blocks submitted so far; block n is the n-th one
  got,    \* the blocks the encoder has read
  broken, \* a write failed
  verdict \* what stopping returned: "none" before that

feedVars == <<sent, got, broken, verdict>>

Init == sent = 0 /\ got = <<>> /\ broken = FALSE /\ verdict = "none"

Submit == /\ verdict = "none"
          /\ sent' = sent + 1
          /\ UNCHANGED <<got, broken, verdict>>

Deliver == /\ verdict = "none" /\ ~broken /\ Len(got) < sent
           /\ got' = Append(got, Len(got) + 1)
           /\ UNCHANGED <<sent, broken, verdict>>

Break == /\ verdict = "none"
         /\ broken' = TRUE
         /\ UNCHANGED <<sent, got, verdict>>

Stop == /\ verdict = "none"
        /\ \/ verdict' = "ok" /\ ~broken /\ Len(got) = sent
           \/ verdict' = "error"
        /\ UNCHANGED <<sent, got, broken>>

Next == Submit \/ Deliver \/ Break \/ Stop

Spec == Init /\ [][Next]_feedVars
============================================================================
