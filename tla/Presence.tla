----------------------------- MODULE Presence -----------------------------
(* Whether quiet mode is in force: app/presence.go and the chain of idle    *)
(* probes of adapters/system/idle_chain.go.  Quiet is the option, the       *)
(* answer of the machine's input idle source and what the operator said by  *)
(* /away and /here.  Only flips leave the tracker, through a channel that   *)
(* holds one value: the daemon loop takes it when its select comes round.   *)
(*                                                                          *)
(* A duration is what the verdict keeps of it: shorter than quiet.idle or   *)
(* not; a timed /away may run out at any poll.                              *)
EXTENDS Naturals, Sequences

VARIABLE pres   \* the tracker: see Tracker

(* What one probe answers: it is not there, it says the session has no such *)
(* source, it fails or cannot be read, or the operator is active or idle.   *)
ProbeOutcome == {"absent", "nosource", "error", "active", "idle"}

IsNoSource(out) == out = "nosource"

(* The first probe with an answer rules; no available probe, or only ones   *)
(* without a source, is a platform without one.                             *)
SampleChain(outs) ==
  LET asked == SelectSeq(outs, LAMBDA o : o # "absent" /\ ~IsNoSource(o))
      read == SelectSeq(asked, LAMBDA o : o # "error")
  IN CASE read # <<>> -> Head(read)
       [] asked = <<>> -> "unsupported"
       [] OTHER -> "failed"

Tracker == [enabled : BOOLEAN,        \* the option quiet.enabled
            unsupported : BOOLEAN, soon : BOOLEAN, sampled : BOOLEAN,
            atDesk : BOOLEAN, desk : BOOLEAN, here : BOOLEAN,
            away : {"no", "timed", "open"},
            quiet : BOOLEAN,
            change : {"none", "began", "ended"}]   \* the undelivered flip

(* NewPresence, with the desk default of a graphical session.               *)
NewPresence(enabled, desk) ==
  [enabled |-> enabled, unsupported |-> FALSE, soon |-> FALSE, sampled |-> FALSE,
   atDesk |-> FALSE, desk |-> desk, here |-> FALSE, away |-> "no",
   quiet |-> FALSE, change |-> "none"]

ByHand(p) == p.unsupported /\ (p.desk \/ p.here)

Effective(p) == /\ p.enabled /\ p.away = "no"
                /\ (~p.unsupported /\ p.sampled /\ p.atDesk) \/ ByHand(p)

(* mutant: a flip does not replace the one on its way *)
RecomputedKept(p) ==
  IF Effective(p) = p.quiet THEN p
  ELSE [p EXCEPT !.quiet = Effective(p),
                 !.change = IF @ # "none" THEN @ ELSE IF Effective(p) THEN "began" ELSE "ended"]

(* recompute: a flip replaces the one the loop has not taken.               *)
Recomputed(p) ==
  IF Effective(p) = p.quiet THEN p
  ELSE [p EXCEPT !.quiet = Effective(p),
                 !.change = IF Effective(p) THEN "began" ELSE "ended"]

Stored(p, answer) ==
  CASE answer = "unsupported" -> [p EXCEPT !.unsupported = TRUE, !.atDesk = FALSE, !.sampled = TRUE]
    [] answer = "failed" -> p
    [] OTHER -> [p EXCEPT !.unsupported = FALSE, !.here = @ /\ ~p.unsupported,
                          !.atDesk = answer = "active", !.sampled = TRUE]

Expired(p) == IF p.away = "timed" THEN {p, [p EXCEPT !.away = "no"]} ELSE {p}

(* Poll up to the call of the source; a platform that said it has none is   *)
(* asked again only after a minute.                                         *)
PollAsks(p) == ~(p.unsupported /\ p.soon)
Poll(asks) ==
  \E p \in Expired(pres) :
    /\ asks = PollAsks(p)
    /\ pres' = IF asks THEN p ELSE Recomputed([p EXCEPT !.soon = FALSE])

(* The source has answered; the tracker was free in between.                *)
Sample(answer) == pres' = Recomputed([Stored(pres, answer) EXCEPT !.soon = answer = "unsupported"])

Away(timed) == pres' = Recomputed([pres EXCEPT !.away = IF timed THEN "timed" ELSE "open",
                                               !.here = FALSE])

Here == pres' = Recomputed([pres EXCEPT !.away = "no", !.here = pres.unsupported])

(* The option was saved and its hook runs.                                  *)
Switched(p, on) == [p EXCEPT !.enabled = on]
Recompute == pres' = Recomputed(pres)

TakeChange == pres' = [pres EXCEPT !.change = "none"]
=============================================================================
