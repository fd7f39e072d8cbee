------------------------------ MODULE EselLog ------------------------------
(***************************************************************************)
(* What a parser of eSEL buffers promises, without saying how it finds the *)
(* sections: a parse produces a log of adjacent spans of the buffer, led   *)
(* by the Private Header, which announces how many there are.  The log     *)
(* grows by one span at a time and ends with a verdict.  An invalid buffer *)
(* may leave a shorter log behind: what was read before the damage.        *)
(*                                                                         *)
(* Event implements it: see Log in Event and LogRefined in Event_proofs. *)
(***************************************************************************)
EXTENDS Integers, Sequences

CONSTANTS
  Starts,     \* where the first span may begin: the top, or behind a SEL record
  MinSpan     \* a span is longer than this: than its own header

VARIABLES
  log,        \* spans [off, length] delivered by the current parse
  announced,  \* spans the Private Header speaks of, itself included
  size,       \* size of the buffer
  verdict     \* "none", "open", "complete" or "invalid"

vars == <<log, announced, size, verdict>>

EndOf(s) == s.off + s.length
Latest   == log'[Len(log')]

Init == log = <<>> /\ announced = 0 /\ size = 0 /\ verdict = "none"

(* A parse begins on a new buffer; an unusable one is refused at once. *)
Begin ==
  /\ verdict # "open"
  /\ verdict' \in {"open", "invalid"}
  /\ log' = <<>> /\ announced' = 0

(* One more span, adjacent to the previous one and inside the buffer. *)
Grow ==
  /\ verdict = "open" /\ verdict' = "open"
  /\ size' = size
  /\ Len(log') = Len(log) + 1
  /\ \A k \in DOMAIN log : log'[k] = log[k]
  /\ Latest.length > MinSpan
  /\ EndOf(Latest) <= size
  /\ IF log = <<>>
       THEN Latest.off \in Starts /\ Latest.id = "PH"
       ELSE /\ Latest.off = EndOf(log[Len(log)])
            /\ Len(log) < announced
            /\ announced' = announced

(* All the spans announced are there; the header counts itself, even when  *)
(* it announces nothing.                                                   *)
Complete ==
  /\ verdict = "open" /\ verdict' = "complete"
  /\ log # <<>>
  /\ Len(log) = 1 \/ Len(log) = announced
  /\ announced <= Len(log)
  /\ UNCHANGED <<log, announced, size>>

(* The buffer is damaged before the last span announced. *)
Reject ==
  /\ verdict = "open" /\ verdict' = "invalid"
  /\ log # <<>> => Len(log) < announced
  /\ UNCHANGED <<log, announced, size>>

Next == Begin \/ Grow \/ Complete \/ Reject

Spec == Init /\ [][Next]_vars
=============================================================================
