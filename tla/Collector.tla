------------------------------ MODULE Collector ------------------------------
(***************************************************************************)
(* The periodic collection of candles (scripts/collector_loop.py) over     *)
(* the session of the broker's WebSocket (collectors/quadcode.py).         *)
(*                                                                         *)
(* Each cycle opens a session, authenticates with the SSID of the          *)
(* environment, pages backwards from now until it has its target of        *)
(* candles and stores them as a version. The platform may be late, drop    *)
(* the connection, answer with an error, with fewer candles than asked,    *)
(* with unusable ones, or with the latest candles whatever time was asked. *)
(*                                                                         *)
(* Time counts candles: the one of time t opens at t timeframes. A message *)
(* that is no answer changes nothing and is not modelled; that such        *)
(* messages may be all there is until the deadline is.                     *)
(***************************************************************************)
EXTENDS Naturals, FiniteSetsExt

CONSTANTS
  MaxTime,   \* bound: the last candle of the model
  Start,     \* the current candle when the model starts
  Window,    \* candles of history the platform exposes
  PageSize,  \* MAX_CANDLES_PER_REQUEST
  Target     \* candles a cycle wants

ASSUME TimeAssumption == MaxTime \in Nat /\ Start \in 1 .. MaxTime
ASSUME SizeAssumption == {Window, PageSize, Target} \subseteq Nat \ {0}

Time == 1 .. MaxTime

VARIABLES
  stage,      \* where the loop is
  ssid,       \* the credential in the environment, and whether it still works
  now,        \* the candle that is forming
  history,    \* what the platform has for each time
  cursor,     \* collect_backwards: end of the next page
  begun,      \* the cursor it began with
  collected,  \* times of the candles it has
  stored,     \* candles of the latest version
  timeUp      \* the time budget of the loop is spent

vars == <<stage, ssid, now, history, cursor, begun, collected, stored, timeUp>>

session == <<cursor, begun, collected>>
platform == <<now, history>>

\* Nothing; a candle without a usable time or close; one the validation
\* rejects; a good one.
Kind == {"missing", "unusable", "inconsistent", "good"}

Ended == {"exit 0", "exit 5", "traceback"}

Stage == Ended \cup {"top", "connecting", "authenticating", "paging", "awaiting",
                     "storing", "cycle over", "sleeping"}

Oldest(S) == Min(S)

Exposed == { t \in Time : t <= now /\ t + Window > now /\ history[t] # "missing" }

\* candle_to_point: the candles of a page that become points.
Points(page) == { t \in page : history[t] # "unusable" }

-----------------------------------------------------------------------------
(* The platform *)

CandlePasses ==
  /\ now < MaxTime
  /\ now' = now + 1
  /\ UNCHANGED <<stage, ssid, history, session, stored, timeUp>>

\* The user logs out in the browser, or the session ends.
ExpireSsid ==
  /\ ssid = "valid"
  /\ ssid' = "expired"
  /\ UNCHANGED <<stage, platform, session, stored, timeUp>>

\* The latest candles up to a time, at most count of them.
Pages(upTo, count) ==
  { page \in SUBSET { t \in Exposed : t <= upTo } :
      /\ page # {}
      /\ Cardinality(page) <= count
      /\ \A t \in Exposed : t <= upTo /\ t >= Oldest(page) => t \in page }

-----------------------------------------------------------------------------
(* The loop *)

Init ==
  /\ stage = "top"
  /\ ssid \in {"absent", "valid"}
  /\ now = Start
  /\ history \in [Time -> Kind]
  /\ cursor = 0
  /\ begun = 0
  /\ collected = {}
  /\ stored = {}
  /\ timeUp = FALSE

TimeUp ==
  /\ stage \notin Ended
  /\ ~ timeUp
  /\ timeUp' = TRUE
  /\ UNCHANGED <<stage, ssid, platform, session, stored>>

Goto(s) ==
  /\ stage' = s
  /\ UNCHANGED <<ssid, platform, session, stored, timeUp>>

BeginCycle ==
  /\ stage = "top"
  /\ Goto(IF timeUp THEN "exit 0" ELSE "connecting")

\* What is left of the budget decides after a cycle, and the sleep is no
\* longer than that.
EndCycle ==
  /\ stage = "cycle over"
  /\ Goto(IF timeUp THEN "exit 0" ELSE "sleeping")

WakeUp ==
  /\ stage = "sleeping"
  /\ Goto("top")

\* The supervision starts it again, with another SSID or the same.
Restart ==
  /\ stage \in Ended
  /\ stage' = "top"
  /\ ssid' \in {ssid, "valid"}
  /\ timeUp' = FALSE
  /\ UNCHANGED <<platform, session, stored>>

-----------------------------------------------------------------------------
(* The session *)

\* The message of a missing variable names the SSID: the loop ends with 5.
Connect ==
  /\ stage = "connecting"
  /\ Goto(IF ssid = "absent" THEN "exit 5" ELSE "authenticating")

\* create_connection and send raise what the loop does not catch.
SocketFails ==
  /\ \/ stage = "connecting" /\ ssid # "absent"
     \/ stage = "paging" /\ Cardinality(collected) < Target
  /\ Goto("traceback")

Authenticated ==
  /\ stage = "authenticating"
  /\ ssid = "valid"
  /\ stage' = "paging"
  /\ cursor' = now
  /\ begun' = now
  /\ collected' = {}
  /\ UNCHANGED <<ssid, platform, stored, timeUp>>

Refused ==
  /\ stage = "authenticating"
  /\ ssid # "valid"
  /\ Goto("exit 5")

\* No confirmation before the deadline; the message says "autenticação".
AuthenticationTimesOut ==
  /\ stage = "authenticating"
  /\ Goto("exit 5")

\* recv times out or the socket is closed: the cycle fails, the loop goes on.
ReceiveFails ==
  /\ stage \in {"authenticating", "awaiting"}
  /\ Goto("cycle over")

-----------------------------------------------------------------------------
(* collect_backwards *)

\* Mutant: a whole page whatever is missing.
WholePage == PageSize

Count == Min({PageSize, Target - Cardinality(collected)})

RequestCandles ==
  /\ stage = "paging"
  /\ Cardinality(collected) < Target
  /\ Goto("awaiting")

EnoughCandles ==
  /\ stage = "paging"
  /\ Cardinality(collected) >= Target
  /\ Goto("storing")

\* Mutant: the cursor goes back by what was asked, not by what was answered.
BackByCount(page) ==
  /\ cursor' = IF cursor > Count THEN cursor - Count ELSE 0
  /\ stage' = IF cursor = 0 THEN "storing" ELSE "paging"

\* Mutant: without the test for a page that does not advance.
NeverGivesUp(page) ==
  LET oldest == Min(Points(page) \cup {cursor})
  IN  /\ cursor' = IF oldest = 0 THEN 0 ELSE oldest - 1
      /\ stage' = "paging"

\* The first cursor is the second at which the collection began: it may be past
\* the opening of the candle that is forming, or just there.
MayBePast(t) == t < cursor \/ (t = cursor /\ cursor = begun)

\* The cursor goes to the candle before the oldest of the page. A page without
\* an older candle than the cursor ends the collection. The platform answers
\* alike for every cursor before its first candle: they are all 0.
Advance(page) ==
  LET oldest == Min(Points(page) \cup {cursor})
  IN  \/ oldest >= cursor /\ stage' = "storing" /\ UNCHANGED cursor
      \/ /\ oldest \in Points(page) /\ MayBePast(oldest)
         /\ stage' = "paging" /\ cursor' = oldest - 1

ReceiveCandles ==
  /\ stage = "awaiting"
  /\ \E upTo \in {cursor, now} : \E page \in Pages(upTo, Count) :
       /\ collected' = collected \cup Points(page)
       /\ Advance(page)
  /\ UNCHANGED <<ssid, platform, begun, stored, timeUp>>

\* "result" or "error" with the identifier of the request.
ReceiveError ==
  /\ stage = "awaiting"
  /\ Goto("cycle over")

\* No candles before the deadline: the collection ends with what it has.
CandlesTimeOut ==
  /\ stage = "awaiting"
  /\ Goto("storing")

\* ingest_raw_batch; without a valid candle the cycle fails. See DatasetStore.
IngestRawBatch ==
  /\ stage = "storing"
  /\ stage' = "cycle over"
  /\ LET valid == { t \in collected : history[t] = "good" }
     IN  stored' = IF valid = {} THEN stored ELSE valid
  /\ UNCHANGED <<ssid, platform, session, timeUp>>

\* The store raises a PersistenceError, or an error of SQLite that the loop does
\* not catch: no version is there.
IngestionFails ==
  /\ stage = "storing"
  /\ collected # {}
  /\ \E s \in {"cycle over", "traceback"} : Goto(s)

-----------------------------------------------------------------------------
(* Specification *)

Session ==
  \/ Connect \/ SocketFails \/ Authenticated \/ Refused
  \/ AuthenticationTimesOut \/ ReceiveFails

Collection ==
  \/ RequestCandles \/ EnoughCandles \/ ReceiveCandles \/ ReceiveError
  \/ CandlesTimeOut \/ IngestRawBatch \/ IngestionFails

Loop == BeginCycle \/ EndCycle \/ WakeUp \/ Session \/ Collection

Next == Loop \/ TimeUp \/ Restart \/ CandlePasses \/ ExpireSsid

Spec == Init /\ [][Next]_vars

\* The loop never waits without a deadline, and its budget runs out. Neither
\* the platform nor the supervision owes it anything.
FairSpec == Spec /\ WF_vars(Loop) /\ WF_vars(TimeUp)

-----------------------------------------------------------------------------
(* Properties *)

\* The types; a cycle never collects more candles than it wants.
TypeOK ==
  /\ stage \in Stage
  /\ ssid \in {"absent", "valid", "expired"}
  /\ now \in Time
  /\ history \in [Time -> Kind]
  /\ cursor \in 0 .. MaxTime /\ begun \in 0 .. MaxTime
  /\ collected \subseteq Time /\ Cardinality(collected) <= Target
  /\ stored \subseteq Time
  /\ timeUp \in BOOLEAN

\* A collection has every usable candle between its oldest one and its
\* beginning: none falls between two pages, however short a page was and
\* whatever it held. The pages of collect_backwards do not overlap, so the
\* cursor alone decides this.
NoCandleSkipped ==
  stage = "storing" =>
    \A t \in Time : /\ t <= begun
                    /\ collected # {} /\ t >= Oldest(collected)
                    /\ history[t] \in {"inconsistent", "good"}
                    => t \in collected

\* A loop that starts comes to an end: it waits for no answer for ever and
\* pages through no history for ever.
CollectionEnds == stage = "top" ~> stage \in Ended
=============================================================================
