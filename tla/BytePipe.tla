------------------------------ MODULE BytePipe ------------------------------
(***************************************************************************)
(* What a relay promises for one direction: a pipe.  It takes the source's *)
(* bytes in order and delivers them in order, each once; it reports the    *)
(* end of the stream only when every byte is delivered, and it may break   *)
(* at any time, after which nothing more is taken or delivered.            *)
(***************************************************************************)
EXTENDS Naturals, Sequences

CONSTANT Source    \* number of bytes the source sends

VARIABLES
  taken,   \* bytes taken from the source
  got,     \* bytes delivered: the positions of the source's bytes
  end      \* "open", "eof" or "broken"

pipe == <<taken, got, end>>

PipeInit == taken = 0 /\ got = <<>> /\ end = "open"

Take ==
  /\ end = "open"
  /\ taken' \in taken..Source
  /\ UNCHANGED <<got, end>>

Deliver ==
  /\ end = "open"
  /\ \E n \in Len(got)..taken : got' = [i \in 1..n |-> i]
  /\ UNCHANGED <<taken, end>>

Close ==
  /\ end = "open"
  /\ Len(got) = Source
  /\ end' = "eof"
  /\ UNCHANGED <<taken, got>>

Break ==
  /\ end = "open"
  /\ end' = "broken"
  /\ UNCHANGED <<taken, got>>

PipeNext == Take \/ Deliver \/ Close \/ Break

PipeSpec == PipeInit /\ [][PipeNext]_pipe

=============================================================================
