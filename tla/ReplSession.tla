----------------------------- MODULE ReplSession -----------------------------
(***************************************************************************)
(* One session of packages/core/src/session/repl-session.ts: a node:repl   *)
(* server, the promise chain of its eval() calls, and the four ways an     *)
(* evaluation ends: the prompt (the sentinel), the check for incomplete    *)
(* input, the watchdog and close().                                        *)
(*                                                                         *)
(* node:repl is external.  As the session uses it, it reads a text when it *)
(* is written, evaluates each complete statement, writes the prompt once   *)
(* per statement that is over, and keeps incomplete text for the next one. *)
(* Output is a sequence of whole prompts: the reassembly of a prompt split *)
(* over two chunks is left out.                                            *)
(***************************************************************************)
EXTENDS Naturals, Sequences, FiniteSets

CONSTANTS
    MaxCalls,      \* bound on the eval() calls, which are numbered as they come
    Text,          \* the texts they may submit: sequences of statements
    None

Call == 1..MaxCalls

\* "sync" is over when it was read, "await" later or never, and "open" is the
\* incomplete statement a text may end in.
Statement == {"sync", "await", "open"}

\* How a call settles.
Outcome == {"prompt", "incomplete", "timeout", "closed"}

ASSUME CallAssumption == MaxCalls \in Nat /\ None \notin Call /\ None \notin Outcome
ASSUME TextAssumption ==
    \A t \in Text : /\ t \in Seq(Statement) /\ t # <<>>
                    /\ \A n \in 1..Len(t) : t[n] = "open" => n = Len(t)

VARIABLES
    queue,             \* the calls chained on the queue whose runLine() has not run
    text,              \* the text of each call
    outcome,           \* how each call settled
    resolveCurrent,    \* the call whose promise the next settle() resolves
    watchdog,          \* the call that armed this.watchdog
    timers,            \* the calls whose watchdog is armed
    checks,            \* the calls whose drain check is scheduled
    bufferedCommand,   \* the calls whose text is in node:repl's buffer
    bufferFound,       \* whether the session knows where that buffer is
    unfinished,        \* for each call, its statements still being evaluated
    closed

evals == <<queue, text, outcome, resolveCurrent>>
watch == <<watchdog, timers, checks>>
repl  == <<bufferedCommand, bufferFound, unfinished>>
vars  == <<evals, watch, repl, closed>>

TypeOK ==
    /\ queue \in Seq(Call)
    /\ text \in [Call -> Text \cup {<<>>}]
    /\ outcome \in [Call -> Outcome \cup {None}]
    /\ resolveCurrent \in Call \cup {None}
    /\ watchdog \in Call \cup {None}
    /\ timers \subseteq Call /\ checks \subseteq Call
    /\ bufferedCommand \subseteq Call /\ bufferFound \in BOOLEAN
    /\ unfinished \in [Call -> Nat]
    /\ closed \in BOOLEAN

\* The prompt written by start() finds no call to resolve.  The buffer is behind a
\* symbol of node:repl's server, looked up by its description.
Init ==
    /\ queue = <<>>
    /\ text = [c \in Call |-> <<>>]
    /\ outcome = [c \in Call |-> None]
    /\ resolveCurrent = None
    /\ watchdog = None
    /\ timers = {} /\ checks = {} /\ bufferedCommand = {} /\ bufferFound \in BOOLEAN
    /\ unfinished = [c \in Call |-> 0]
    /\ closed = FALSE

-----------------------------------------------------------------------------
(* node:repl                                                               *)

\* What a text does when nothing is buffered.
Read(c, t) ==
    [prompts |-> \E n \in 1..Len(t) : t[n] = "sync",
     started |-> Cardinality({n \in 1..Len(t) : t[n] = "await"}),
     left    |-> IF t # <<>> /\ t[Len(t)] = "open" THEN {c} ELSE {}]

\* Buffered text swallows the first lines of the next text, up to the one that
\* completes it into a statement (or a syntax error), if there is one.
ReadOnto(c, t) ==
    {[prompts |-> FALSE, started |-> 0, left |-> bufferedCommand \cup {c}]} \cup
    {[Read(c, SubSeq(t, n + 1, Len(t))) EXCEPT !.prompts = TRUE] : n \in 1..Len(t)}

Reading(c) == IF bufferedCommand = {} THEN {Read(c, text[c])} ELSE ReadOnto(c, text[c])

-----------------------------------------------------------------------------
(* ReplSession                                                             *)

TimersKept(fired) == timers \ fired

\* settle() clears the watchdog; a timer that fires is no longer armed either.
TimersLeft(fired) == timers \ (fired \cup {watchdog})

\* settle(): resolves the call in flight, if any.
Settle(why, fired) ==
    /\ resolveCurrent' = None
    /\ watchdog' = None
    /\ timers' = TimersLeft(fired)
    /\ outcome' = [c \in Call |-> IF c = resolveCurrent THEN why ELSE outcome[c]]

\* eval(): chained behind every call before it.
Eval(c) ==
    /\ c = Cardinality({d \in Call : text[d] # <<>>}) + 1
    /\ \E t \in Text : text' = [text EXCEPT ![c] = t]
    /\ queue' = Append(queue, c)
    /\ UNCHANGED <<outcome, resolveCurrent, watch, repl, closed>>

ChainRunsAnyTime == queue # <<>>

\* The chain calls the next runLine() once the promise before it is resolved.
ChainAdvances == queue # <<>> /\ resolveCurrent = None

WritesAlways == TRUE

\* runLine() writes nothing to the input of a session that was closed.
Writes == ~closed

\* runLine(): registers the resolver, arms the watchdog, writes the text and
\* schedules the check.  A statement that is over at once settles the call now.
RunLine ==
    LET c == Head(queue)
    IN /\ ChainAdvances /\ Writes
       /\ queue' = Tail(queue)
       /\ \E r \in Reading(c) :
            /\ unfinished' = [unfinished EXCEPT ![c] = r.started]
            /\ bufferedCommand' = r.left
            /\ IF r.prompts
               THEN /\ outcome' = [outcome EXCEPT ![c] = "prompt"]
                    /\ resolveCurrent' = None /\ watchdog' = None
                    /\ UNCHANGED timers
               ELSE /\ resolveCurrent' = c /\ watchdog' = c
                    /\ timers' = timers \cup {c}
                    /\ UNCHANGED outcome
       /\ checks' = checks \cup {c}
       /\ UNCHANGED <<text, bufferFound, closed>>

SkipLine ==
    /\ ChainAdvances /\ ~Writes
    /\ queue' = Tail(queue)
    /\ outcome' = [outcome EXCEPT ![Head(queue)] = "closed"]
    /\ UNCHANGED <<text, resolveCurrent, watch, repl, closed>>

\* handleOutput(): a statement of c is over, and its prompt settles whichever
\* call is in flight.
PromptWritten(c) ==
    /\ unfinished[c] > 0
    /\ unfinished' = [unfinished EXCEPT ![c] = @ - 1]
    /\ Settle("prompt", {})
    /\ UNCHANGED <<queue, text, checks, bufferedCommand, bufferFound, closed>>

BufferKept == bufferedCommand

\* clearBufferedCommand()
BufferAfterRecovery == {}

\* checkForStuckIncompleteInput() that finds nothing to recover from.
CheckPasses(c) ==
    /\ c \in checks
    /\ checks' = checks \ {c}
    /\ resolveCurrent = None \/ ~bufferFound \/ bufferedCommand = {}
    /\ UNCHANGED <<evals, watchdog, timers, repl, closed>>

\* recoverFromIncompleteInput()
CheckRecovers(c) ==
    /\ c \in checks
    /\ checks' = checks \ {c}
    /\ resolveCurrent # None /\ bufferFound
    /\ bufferedCommand # {}
    /\ bufferedCommand' = BufferAfterRecovery
    /\ Settle("incomplete", {})
    /\ UNCHANGED <<queue, text, bufferFound, unfinished, closed>>

\* The watchdog does not stop the evaluation, only the wait for it.
WatchdogFires(c) ==
    /\ c \in timers
    /\ bufferedCommand' = {}
    /\ Settle("timeout", {c})
    /\ UNCHANGED <<queue, text, checks, bufferFound, unfinished, closed>>

\* The engine drops a session when it closes it.
Close ==
    /\ ~closed
    /\ closed' = TRUE
    /\ Settle("closed", {})
    /\ UNCHANGED <<queue, text, checks, repl>>

Next ==
    \/ RunLine \/ SkipLine \/ Close
    \/ \E c \in Call : \/ Eval(c) \/ PromptWritten(c) \/ WatchdogFires(c)
                          \/ CheckPasses(c) \/ CheckRecovers(c)

Spec == Init /\ [][Next]_vars

\* The microtask queue drains and an armed timer fires; nothing is assumed of
\* the evaluation, which may never end.
Fairness ==
    /\ WF_vars(RunLine \/ SkipLine)
    /\ \A c \in Call : WF_vars(WatchdogFires(c))

FairSpec == Spec /\ Fairness

-----------------------------------------------------------------------------
(* Properties                                                              *)

\* The watchdog that is armed belongs to the call in flight: none outlives its
\* evaluation and reports "eval timed out" against a later one (205-214, 246-250).
WatchdogGuardsCurrent == timers = {resolveCurrent} \ {None}

\* A closed session keeps no caller waiting, not even one whose call was still
\* queued when it was closed (228-233, 265-269).
ClosedKeepsNobodyWaiting == closed => resolveCurrent = None

\* Texts of one statement, none of which was cut off yet.
Orderly == \A c \in Call : Len(text[c]) <= 1 /\ outcome[c] # "timeout"

\* As long as texts are single statements and nothing timed out, a call resolved
\* by the prompt has really been evaluated, and what is left in the buffer is the
\* text of the call in flight, never of one before it (45-54, 194-203).
EvalsAreIsolated ==
    Orderly /\ ~closed =>
        /\ \A c \in Call : outcome[c] = "prompt" => unfinished[c] = 0
        /\ bufferedCommand \subseteq {resolveCurrent}

Chain == INSTANCE SerialQueue WITH
    Worker   <- {"session"},
    Mortal   <- {},
    Job      <- Call,
    waiting  <- [w \in {"session"} |-> queue],
    running  <- [w \in {"session"} |-> resolveCurrent],
    finished <- [w \in {"session"} |-> {c \in Call : outcome[c] # None}]

\* Through prompts that come late, recoveries, timeouts and close(), calls are taken
\* up in the order of eval(), one at a time, and each is resolved once (205-263).
EvaluatesSerially == Chain!Spec

\* Every eval() resolves, although the statement it submitted may be incomplete or
\* never end, and although settle() resolves whichever call is in flight (205-263).
EvalResolves == \A c \in Call : text[c] # <<>> ~> outcome[c] # None

\* "the submitted text left a trailing statement that is syntactically incomplete"
\* (repl-session.ts:175-177): what the check throws away with an error was submitted
\* by the call it reports it to.  Refuted: a first statement that settles the call
\* hides the incomplete one behind it from the check, and the next call inherits it.
RecoveryBlamesTheSubmitter ==
    [][\A c \in Call :
            outcome[c] = None /\ outcome'[c] = "incomplete" => bufferedCommand \subseteq {c}]_vars

=============================================================================
