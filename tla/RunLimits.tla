----------------------------- MODULE RunLimits ------------------------------
(***************************************************************************)
(* The limits of a run: the loop of src/app/engine/runner.py over the      *)
(* events of the model, with the deadline, the iterations, the output and  *)
(* the token budget of src/app/engine/limits.py and the ledger of tool     *)
(* calls of src/app/engine/tools.py. A text is a sequence of code points,  *)
(* each given by the number of bytes of its UTF-8 form. The event loop may *)
(* turn to something else at every part the run yields to its consumer.    *)
(***************************************************************************)
EXTENDS Integers, SequencesExt, FiniteSetsExt

CONSTANTS Contents,    \* the parts an event of the model may carry, as sequences
          Usages,      \* the tokens an event may report
          Limits,      \* the limits a deployment may have configured
          MaxEvents    \* bound of the model: events of the model in one run

NoUsage == -1
Text(points) == [kind |-> "text", points |-> points]
Call(id) == [kind |-> "call", id |-> id]
GatedCall(id) == [kind |-> "gated", id |-> id]
Response(id) == [kind |-> "response", id |-> id]

Points == 1..4
Parts == UNION {ToSet(c) : c \in Contents}
Calls == {p.id : p \in {q \in Parts : q.kind # "text"}}

ASSUME LimitsAssumption ==
  /\ Usages \subseteq Nat \cup {NoUsage} /\ MaxEvents \in Nat
  /\ Contents \subseteq Seq(Parts)
  /\ \A p \in Parts : \/ p.kind = "text" /\ p.points \in Seq(Points)
                      \/ p.kind \in {"call", "gated", "response"}
  /\ \A l \in Limits : /\ l.iterations \in Nat \ {0}
                       /\ l.output \in Nat \ {0}
                       /\ l.budget \in Nat          \* 0: no budget

VARIABLES
  limits,      \* of the configuration the run was admitted under
  limiter,     \* [iterations, output, outputHit, tokens, over]: RunLimiter
  ledger,      \* [call id -> "none", "executing" or "completed"]
  kept,        \* text_parts: the answer so far
  run,         \* "looping", "converting", "finishing" or how the run ended
  todo,        \* the parts of the event that are still to be converted
  errored,
  finish,      \* finish_reason and x_agent_status of the end
  \* what the model did, for the properties:
  written,     \* all the text of its events
  events,      \* how many events the model has sent: at most MaxEvents
  said         \* "more", or "all" when the model ended its answer itself

modelVars == <<written, events, said>>
vars == <<limits, limiter, ledger, kept, run, todo, errored, finish, modelVars>>

Bytes(text) ==
  LET upto[n \in 0..Len(text)] == IF n = 0 THEN 0 ELSE upto[n - 1] + text[n]
  IN  upto[Len(text)]

\* The text of some parts of an event.
PartText(part) == IF part.kind = "text" THEN part.points ELSE <<>>

TextOf(parts) ==
  LET upto[n \in 0..Len(parts)] == IF n = 0 THEN <<>> ELSE upto[n - 1] \o PartText(parts[n])
  IN  upto[Len(parts)]

-----------------------------------------------------------------------------
(* RunLimiter *)

IterationHit(l) == l.iterations >= limits.iterations

\* can_start_another_call
MayCallAgain(l) ==
  ~l.over /\ ~l.outputHit /\ ~(limits.budget > 0 /\ l.tokens >= limits.budget)

\* The largest prefix of whole code points that fits into room bytes.
CodepointPrefix(text, room) ==
  SubSeq(text, 1, Max({n \in 0..Len(text) : Bytes(SubSeq(text, 1, n)) <= room}))

Room == limits.output - limiter.output

Allowed(text) == CodepointPrefix(text, Room)

\* Mutant: the limit is only noticed when nothing at all fits.
ReserveUnmarked(text) ==
  [limiter EXCEPT !.output = @ + Bytes(Allowed(text)),
                  !.outputHit = @ \/ Room <= 0]

\* reserve_output: a text that does not fit marks the limit.
Reserve(text) ==
  [limiter EXCEPT !.output = @ + Bytes(Allowed(text)),
                  !.outputHit = @ \/ Room <= 0 \/ Bytes(text) > Room]

\* observe_usage: tokens of an event without usage are not known.
Observe(usage) ==
  LET tokens == limiter.tokens + Max({usage, 0})
  IN  [limiter EXCEPT !.tokens = tokens,
                      !.over = @ \/ (limits.budget > 0 /\ tokens > limits.budget)]

-----------------------------------------------------------------------------
(* The loop over the model's events *)

\* The loop stops by itself after an event that reached a limit.
AfterEvent(l) ==
  IF IterationHit(l) \/ ~MayCallAgain(l) THEN "finishing" ELSE "looping"

\* The next event of the model. One that reports an error is not converted.
Event(parts, usage, failed) ==
  /\ run = "looping" /\ events < MaxEvents
  /\ limiter' = Observe(usage)
  /\ events' = events + 1
  /\ errored' = (errored \/ failed)
  /\ todo' = IF failed THEN <<>> ELSE parts
  /\ run' = IF todo' = <<>> THEN AfterEvent(limiter') ELSE "converting"
  /\ written' = written \o TextOf(todo')
  /\ UNCHANGED <<limits, ledger, kept, finish, said>>

\* The generator of the model ends.
ModelEnds ==
  /\ run = "looping"
  /\ run' = "finishing" /\ said' = "all"
  /\ UNCHANGED <<limits, limiter, ledger, kept, todo, errored, finish, written, events>>

Converted(rest) ==
  /\ todo' = rest
  /\ run' = IF rest = <<>> THEN AfterEvent(limiter') ELSE "converting"

\* A text is kept as far as it fits; the rest of its event is dropped when it does not.
ConvertText ==
  /\ run = "converting" /\ Head(todo).kind = "text"
  /\ kept' = kept \o Allowed(Head(todo).points)
  /\ limiter' = Reserve(Head(todo).points)
  /\ Converted(IF limiter'.outputHit THEN <<>> ELSE Tail(todo))
  /\ UNCHANGED <<limits, ledger, errored, finish, modelVars>>

\* A tool call is an iteration, unless its result is known.
ConvertCall ==
  /\ run = "converting" /\ Head(todo).kind = "call"
  /\ IF ledger[Head(todo).id] = "completed"
     THEN UNCHANGED <<ledger, limiter>>
     ELSE /\ ledger' = [ledger EXCEPT ![Head(todo).id] = "executing"]
          /\ limiter' = [limiter EXCEPT !.iterations = @ + 1]
  /\ Converted(Tail(todo))
  /\ UNCHANGED <<limits, kept, errored, finish, modelVars>>

\* A call that needs an approval pauses the run; the generator is abandoned.
ConvertGated ==
  /\ run = "converting" /\ Head(todo).kind = "gated"
  /\ run' = "awaiting_approval"
  /\ UNCHANGED <<limits, limiter, ledger, kept, todo, errored, finish, modelVars>>

ConvertResponse ==
  /\ run = "converting" /\ Head(todo).kind = "response"
  /\ ledger' = [ledger EXCEPT ![Head(todo).id] = "completed"]
  /\ UNCHANGED <<limits, limiter, kept, errored, finish, modelVars>>
  /\ Converted(Tail(todo))

-----------------------------------------------------------------------------
(* The ends of a run *)

Ends(how, reason, status) ==
  /\ run' = how /\ finish' = <<reason, status>>
  /\ UNCHANGED <<limits, limiter, ledger, kept, todo, errored, modelVars>>

\* Mutant: an answer cut at the output limit ends like any other.
FinalizeIterations ==
  IF IterationHit(limiter) THEN <<"length", "iteration_limit">> ELSE <<"stop", "none">>

\* _finalize
Finalize ==
  IF IterationHit(limiter) THEN <<"length", "iteration_limit">>
  ELSE IF limiter.outputHit THEN <<"length", "output_limit">> ELSE <<"stop", "none">>

\* An error of the model and an exceeded budget fail the run, whatever it answered.
FinishFailed ==
  /\ run = "finishing" /\ (errored \/ limiter.over)
  /\ Ends("failed", "error", IF limiter.over THEN "budget_exceeded" ELSE "provider_error")

FinishSucceeded ==
  /\ run = "finishing" /\ ~errored /\ ~limiter.over
  /\ Ends("succeeded", Finalize[1], Finalize[2])

\* The deadline passes inside the loop: at the start of an event or in an await.
Deadline ==
  /\ run \in {"looping", "converting"}
  /\ Ends("failed", "error", "agent_timeout")

\* The consumer closes the generator, or the task is cancelled.
Cut ==
  /\ run \in {"looping", "converting"}
  /\ Ends("cut", "none", "none")

LimitsInit ==
  /\ limits \in Limits
  /\ limiter = [iterations |-> 0, output |-> 0, outputHit |-> FALSE, tokens |-> 0, over |-> FALSE]
  /\ ledger = [c \in Calls |-> "none"]
  /\ kept = <<>> /\ run = "looping" /\ todo = <<>> /\ errored = FALSE
  /\ finish = <<"none", "none">>
  /\ written = <<>> /\ events = 0 /\ said = "more"

LimitsNext ==
  \/ \E parts \in Contents, usage \in Usages, failed \in BOOLEAN : Event(parts, usage, failed)
  \/ ModelEnds
  \/ ConvertText \/ ConvertCall \/ ConvertGated \/ ConvertResponse
  \/ FinishFailed \/ FinishSucceeded \/ Deadline \/ Cut

LimitsSpec == LimitsInit /\ [][LimitsNext]_vars

-----------------------------------------------------------------------------
(* Properties *)

\* An answer that ends with "stop" is all the model wrote, and the model ended
\* it itself. The one exception is a run whose tokens are exactly the budget:
\* the loop stops there as it does beyond it, and _finalize says nothing.
StopMeansWhole ==
  (run = "succeeded" /\ finish[1] = "stop") =>
    /\ kept = written
    /\ said = "all" \/ (limits.budget > 0 /\ limiter.tokens = limits.budget)

\* The answer, put together delta by delta, is at every moment what cutting the
\* whole text once would have kept: the largest prefix of whole code points
\* that fits into maxOutputBytes. The text of an event with an error is not kept.
AnswerIsLargestPrefix ==
  /\ IsPrefix(kept, written) /\ Bytes(kept) <= limits.output
  /\ limiter.outputHit => kept = CodepointPrefix(written, limits.output)

-----------------------------------------------------------------------------
(* The inductive invariant behind them *)

LimitsTypeOK ==
  /\ limits \in Limits
  /\ limiter \in [iterations : Nat, output : Nat, outputHit : BOOLEAN, tokens : Nat, over : BOOLEAN]
  /\ kept \in Seq(Points) /\ written \in Seq(Points) /\ todo \in Seq(Parts)

\* The loop goes on while no limit is reached, and stops after a whole event.
StopsKept ==
  /\ run = "converting" => todo # <<>>
  /\ run \in {"looping", "finishing", "succeeded"} => todo = <<>>
  /\ run \in {"finishing", "succeeded"} => said = "all" \/ IterationHit(limiter) \/ ~MayCallAgain(limiter)
  /\ run = "succeeded" => ~limiter.over /\ finish = Finalize
  /\ limits.budget > 0 /\ ~limiter.over => limiter.tokens <= limits.budget

\* The bytes are counted; what is not kept yet is still to be converted, until the limit.
TextKept ==
  /\ limiter.output = Bytes(kept) /\ Bytes(kept) <= limits.output
  /\ ~limiter.outputHit => written = kept \o TextOf(todo)
  /\ limiter.outputHit => /\ run \notin {"looping", "converting"}
                          /\ kept = CodepointPrefix(written, limits.output)

LimitsInv == LimitsTypeOK /\ StopsKept /\ TextKept
=============================================================================
