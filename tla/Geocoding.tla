----------------------------- MODULE Geocoding -----------------------------
(***************************************************************************)
(* The proxy of the geocoder (geocoding.service.ts).  The searches of a    *)
(* process form a chain of promises: each one calls the provider when the  *)
(* one before has its answer and a pause has gone by.                      *)
(*                                                                         *)
(* Timers are never early, and may be late: a process gets to them when it *)
(* can.  A search of less than three letters is answered on the spot and   *)
(* is left out.                                                            *)
(***************************************************************************)
EXTENDS Naturals, Sequences, SequencesExt

CONSTANTS
  Searchers,     \* people who look for an address; a slot is used again
  MIN_INTERVAL,  \* of time between an answer and the next call
  TIMEOUT        \* of time that a call may take

ASSUME GeocodingAssumption == MIN_INTERVAL \in Nat \ {0} /\ TIMEOUT \in Nat \ {0}

VARIABLES
  queue,      \* the chain: the searches that have no answer yet
  phase,      \* of its head: waiting, calling the provider, or in the pause
  timer,      \* time since the call or the pause began
  answer,     \* what each search got
  sinceCall   \* time since the provider was last called (history)

geocodingVars == <<queue, phase, timer, answer, sinceCall>>

\* Time is told apart up to the longer of the two.
MaxTimer == IF MIN_INTERVAL < TIMEOUT THEN TIMEOUT ELSE MIN_INTERVAL

GeocodingTypeOK ==
  /\ queue \in Seq(Searchers) /\ IsInjective(queue)
  /\ phase \in {"ready", "calling", "pause"}
  /\ timer \in 0 .. MaxTimer
  /\ answer \in [Searchers -> {"none", "waiting", "places", "empty"}]
  /\ \A c \in Searchers : answer[c] = "waiting" <=> \E i \in DOMAIN queue : queue[i] = c
  /\ sinceCall \in 0 .. MIN_INTERVAL

GeocodingInit ==
  /\ queue = <<>>
  /\ phase = "ready"
  /\ timer = 0
  /\ answer = [c \in Searchers |-> "none"]
  /\ sinceCall = MIN_INTERVAL

Search(c) ==
  /\ answer[c] = "none"
  /\ answer' = [answer EXCEPT ![c] = "waiting"]
  /\ queue' = Append(queue, c)
  /\ UNCHANGED <<phase, timer, sinceCall>>

Call ==
  /\ phase = "ready" /\ queue # <<>>
  /\ phase' = "calling"
  /\ timer' = 0
  /\ sinceCall' = 0
  /\ UNCHANGED <<queue, answer>>

\* Mutant of Settle: what has its answer is not taken off the chain.
SettleTwice(result) ==
  /\ phase = "calling"
  /\ answer' = [answer EXCEPT ![Head(queue)] = result]
  /\ phase' = "pause"
  /\ timer' = 0
  /\ UNCHANGED <<queue, sinceCall>>

\* The head of the chain is settled: the search has its answer, and the next one
\* waits for the pause.
Settle(result) ==
  /\ phase = "calling"
  /\ answer' = [answer EXCEPT ![Head(queue)] = result]
  /\ queue' = Tail(queue)
  /\ phase' = "pause"
  /\ timer' = 0
  /\ UNCHANGED sinceCall

\* The provider answers, with an error or something that is no list of places
\* as well: `catch` makes it an empty list.
Respond == Settle("places") \/ Settle("empty")

\* Mutant of TimeOut: no AbortSignal.
NoTimeOut == FALSE /\ Settle("empty")

\* The provider does not answer: the AbortSignal ends the call.
TimeOut == timer >= TIMEOUT /\ Settle("empty")

\* Mutant of EndPause: the next search is chained to the answer.
SkipPause ==
  /\ phase = "pause"
  /\ phase' = "ready"
  /\ timer' = 0
  /\ UNCHANGED <<queue, answer, sinceCall>>

EndPause ==
  /\ phase = "pause"
  /\ timer >= MIN_INTERVAL
  /\ phase' = "ready"
  /\ timer' = 0
  /\ UNCHANGED <<queue, answer, sinceCall>>

Receive(c) ==
  /\ answer[c] \in {"places", "empty"}
  /\ answer' = [answer EXCEPT ![c] = "none"]
  /\ UNCHANGED <<queue, phase, timer, sinceCall>>

Later(t, bound) == IF t < bound THEN t + 1 ELSE t

Tick ==
  /\ timer' = IF phase = "ready" THEN timer ELSE Later(timer, MaxTimer)
  /\ sinceCall' = Later(sinceCall, MIN_INTERVAL)
  /\ UNCHANGED <<queue, phase, answer>>

Chain == Call \/ Respond \/ TimeOut \/ EndPause

\* Time goes by and timers fire in the end; that the provider answers is not
\* assumed.
GeocodingFairness ==
  /\ WF_geocodingVars(Call) /\ WF_geocodingVars(TimeOut) /\ WF_geocodingVars(EndPause)
  /\ WF_geocodingVars(Tick)

-----------------------------------------------------------------------------
(* Properties.                                                             *)

\* "Limita a 1 request por segundo": a process never calls the provider before
\* the interval has gone by since its last call, whatever became of that one.
CallsSpaced ==
  [][phase # "calling" /\ phase' = "calling" => sinceCall >= MIN_INTERVAL]_geocodingVars

\* Every search gets its answer, also behind calls that fail or hang.
SearchesAnswered == \A c \in Searchers : answer[c] = "waiting" ~> answer[c] # "waiting"
=============================================================================
