---------------------------- MODULE WatchSession ----------------------------
(***************************************************************************)
(* A recorded agent session and its review (watch.py, cli.py _hook and     *)
(* review).  Tool calls of one session, several at a time, edit the test   *)
(* suite and run it; after each a hook process appends one line to the     *)
(* session's log in the directory the call was made from.  The review      *)
(* compares the first with the last run of each test command it finds.     *)
(***************************************************************************)
EXTENDS Integers, Sequences, FiniteSets

CONSTANTS Callers,   \* the tool calls that can be in progress at once
          Dirs,      \* working directories
          Tests,
          Cmds,      \* test commands
          Selects,   \* command -> the tests it selects
          Nothing,
          MaxCalls,  \* bound on the tool calls of the session
          MaxFaults  \* bound on failed and interrupted hooks

Statuses == {"absent", "pass", "fail", "skip"}

(* The results of a test run, and the events hooks record; both carry      *)
(* Nothing where the code has None or an empty text.                       *)
Results == [total : 0..(Cardinality(Tests) + 1), silenced : 0..(Cardinality(Tests) + 1)]
Events  == [tool : {"Bash", "Edit"}, command : Cmds \cup {Nothing}, out : Results \cup {Nothing},
            n : Nat, was : [Tests -> Statuses] \cup {Nothing}, dir : Dirs]

ASSUME SessionAssumption ==
  /\ IsFiniteSet(Callers) /\ IsFiniteSet(Dirs) /\ IsFiniteSet(Tests)
  /\ Selects \in [Cmds -> SUBSET Tests]
  /\ Nothing \notin Cmds \cup Results \cup [Tests -> Statuses] \cup Events
  /\ MaxCalls \in Nat /\ MaxFaults \in Nat

VARIABLES suite,   \* test -> "absent", "pass", "fail" or "skip"
          calls,   \* tool calls so far
          hook,    \* caller -> the event its hook process has to record, or Nothing
          log,     \* directory -> lines of the log, each a sequence of pieces
          open,    \* directory -> the last line has no newline
          failed,  \* hooks that recorded nothing
          torn     \* hooks that ended within their line

files == <<log, open>>
sessionVars == <<suite, calls, hook, files, failed, torn>>

Fragment == [tool |-> "torn"]     \* the first part of a line
Faults   == failed + torn

SessionInit ==
  /\ suite \in [Tests -> Statuses]
  /\ calls = 0
  /\ hook = [a \in Callers |-> Nothing]
  /\ log = [d \in Dirs |-> <<>>] /\ open = [d \in Dirs |-> FALSE]
  /\ failed = 0 /\ torn = 0

-----------------------------------------------------------------------------
(* The agent's tools                                                       *)

In(s, status) == {t \in Tests : s[t] \in status}

(* The suite as command c sees it.                                         *)
Selected(c) == [t \in Tests |-> IF t \in Selects[c] THEN suite[t] ELSE "absent"]

(* parse_test_result of a summary: skipped and expected failures are       *)
(* silenced, and all that has an outcome is counted.                       *)
Result(s) == [total |-> Cardinality(In(s, {"pass", "fail", "skip"})),
              silenced |-> Cardinality(In(s, {"skip"}))]

(* An error in collecting the tests is one outcome.                        *)
CollectionError == [total |-> 1, silenced |-> 0]

(* The tool call is made and its PostToolUse hook starts.                  *)
ToolCall(a, event) ==
  /\ hook[a] = Nothing /\ calls < MaxCalls
  /\ calls' = calls + 1
  /\ hook' = [hook EXCEPT ![a] = event]
  /\ UNCHANGED <<files, failed, torn>>

(* A test command.  was: the selected tests as they were, for the          *)
(* properties; Nothing if they did not run.  Of a long output only the     *)
(* first part is kept, and the summary at its end is lost.                 *)
RunTests(a, d, c) ==
  /\ LET s == Selected(c)
         Run(out, was) == [tool |-> "Bash", command |-> c, out |-> out,
                           n |-> calls, was |-> was, dir |-> d]
     IN \/ In(s, {"pass", "fail", "skip"}) # {} /\ ToolCall(a, Run(Result(s), s))
        \/ ToolCall(a, Run(CollectionError, Nothing))
        \/ ToolCall(a, Run(Nothing, Nothing))
  /\ UNCHANGED suite

(* Edit or Write: a test is added, deleted, skipped, mended or broken.     *)
(* The response shows the text, here with words like those of a summary;   *)
(* one without counts for as little as a command with no output.           *)
EditTest(a, d, t, status) ==
  /\ suite[t] # status
  /\ suite' = [suite EXCEPT ![t] = status]
  /\ ToolCall(a, [tool |-> "Edit", command |-> Nothing, out |-> [total |-> 1, silenced |-> 1],
                  n |-> calls, was |-> Nothing, dir |-> d])

-----------------------------------------------------------------------------
(* record_event                                                            *)

HookEnds(a) == hook' = [hook EXCEPT ![a] = Nothing]

(* What follows a line without newline is part of that line.               *)
Put(d, piece) ==
  log' = [log EXCEPT ![d] =
           IF open[d] THEN [@ EXCEPT ![Len(log[d])] = Append(log[d][Len(log[d])], piece)]
                      ELSE Append(@, <<piece>>)]

(* Mutant: the hook takes its own directory for the call's.                *)
RecordHere(a) ==
  /\ hook[a] # Nothing
  /\ \E d \in Dirs : Put(d, hook[a]) /\ open' = [open EXCEPT ![d] = FALSE]
  /\ HookEnds(a)
  /\ UNCHANGED <<suite, calls, failed, torn>>

RecordEvent(a) ==
  /\ hook[a] # Nothing
  /\ Put(hook[a].dir, hook[a])
  /\ open' = [open EXCEPT ![hook[a].dir] = FALSE]
  /\ HookEnds(a)
  /\ UNCHANGED <<suite, calls, failed, torn>>

(* cmd_hook swallows every exception; a timeout kills the process.         *)
HookFails(a) ==
  /\ hook[a] # Nothing /\ Faults < MaxFaults
  /\ failed' = failed + 1
  /\ HookEnds(a)
  /\ UNCHANGED <<suite, calls, files, torn>>

(* A full disk or a kill: a part of the line is written, or all but the    *)
(* newline.                                                                *)
HookCut(a) ==
  /\ hook[a] # Nothing /\ Faults < MaxFaults
  /\ torn' = torn + 1
  /\ \E piece \in {Fragment, hook[a]} : Put(hook[a].dir, piece)
  /\ open' = [open EXCEPT ![hook[a].dir] = TRUE]
  /\ HookEnds(a)
  /\ UNCHANGED <<suite, calls, failed>>

SessionNext ==
  \E a \in Callers :
    \/ \E d \in Dirs, c \in Cmds : RunTests(a, d, c)
    \/ \E d \in Dirs, t \in Tests, s \in Statuses : EditTest(a, d, t, s)
    \/ RecordEvent(a) \/ HookFails(a) \/ HookCut(a)

SessionSpec == SessionInit /\ [][SessionNext]_sessionVars

-----------------------------------------------------------------------------
(* cmd_review                                                              *)

Event(d, i)  == log[d][i][1]
Parses(line) == Len(line) = 1 /\ line[1] # Fragment

(* Mutant: reading stops at the first line that is not JSON.               *)
LoadToError(d) == {i \in DOMAIN log[d] : \A j \in 1..i : Parses(log[d][j])}

(* load_events: a line that is not JSON is passed over.  A list of events  *)
(* is the set of their lines.                                              *)
LoadEvents(d) == {i \in DOMAIN log[d] : Parses(log[d][i])}

TestRuns(d) == {i \in LoadEvents(d) : Event(d, i).tool = "Bash" /\ Event(d, i).out # Nothing}

(* Mutant: the session's first run is compared with its last.              *)
Ungrouped(d) == IF TestRuns(d) = {} THEN {} ELSE {TestRuns(d)}

(* _group_by_command                                                       *)
GroupByCommand(d) ==
  {{i \in TestRuns(d) : Event(d, i).command = Event(d, r).command} : r \in TestRuns(d)}

First(d, g) == Event(d, CHOOSE i \in g : \A j \in g : i <= j)
Last(d, g)  == Event(d, CHOOSE i \in g : \A j \in g : j <= i)

(* How much key went down or up in a group.                                *)
Change(d, g, key, direction) ==
  IF direction = "down" THEN First(d, g).out[key] - Last(d, g).out[key]
                        ELSE Last(d, g).out[key] - First(d, g).out[key]

(* _largest_change, without its tie break: the groups a flag may be about. *)
LargestChange(d, key, direction) ==
  {g \in GroupByCommand(d) :
     /\ Change(d, g, key, direction) > 0
     /\ \A o \in GroupByCommand(d) : Change(d, o, key, direction) <= Change(d, g, key, direction)}

(* Mutant: skipped tests are not compared.                                 *)
DropsOnly(d) == [drop |-> LargestChange(d, "total", "down"), silenced |-> {}]

(* analyze: the two flags about test runs.                                 *)
Analyze(d) == [drop |-> LargestChange(d, "total", "down"),
               silenced |-> LargestChange(d, "silenced", "up")]

(* cmd_review: without a session, or without a line of it that can be      *)
(* read, there is nothing to say.                                          *)
Review(d) ==
  IF LoadEvents(d) = {} THEN [drop |-> {}, silenced |-> {}] ELSE Analyze(d)

-----------------------------------------------------------------------------
(* Properties                                                              *)

(* Type invariant of the session: in particular only the last line of a    *)
(* log is ever without its newline, and every line holds something.        *)
SessionTypeOK ==
  /\ suite \in [Tests -> Statuses] /\ calls \in 0..MaxCalls
  /\ hook \in [Callers -> Events \cup {Nothing}]
  /\ log \in [Dirs -> Seq(Seq({Fragment} \cup Events))] /\ open \in [Dirs -> BOOLEAN]
  /\ \A d \in Dirs :
       /\ open[d] => log[d] # <<>>
       /\ \A i \in DOMAIN log[d] :
            /\ log[d][i] # <<>>
            /\ \A j \in DOMAIN log[d][i] : log[d][i][j] # Fragment => log[d][i][j].dir = d
  /\ failed \in 0..MaxFaults /\ torn \in 0..MaxFaults /\ Faults <= MaxFaults

(* The two runs a group compares tell of the suite: both ran the tests,    *)
(* and their hooks have not overtaken each other.                          *)
Comparable(first, last) == first.was # Nothing /\ last.was # Nothing /\ first.n < last.n

Present(s) == In(s, {"pass", "fail", "skip"})
Active(s) == In(s, {"pass", "fail"})

(* _group_by_command (watch.py:523): "the comparison is always             *)
(* like-for-like".  A flag about fewer tests means that a test which the   *)
(* command ran at first is no longer there, a flag about silenced tests    *)
(* that one is skipped which was not: whatever else ran in between,        *)
(* whatever lines were lost and whatever the output of edits looked like.  *)
NoFalseAlarm ==
  \A d \in Dirs : \A g \in GroupByCommand(d) :
    LET first == First(d, g)
        last  == Last(d, g)
    IN /\ g \in Review(d).drop /\ Comparable(first, last) =>
            \E t \in Present(first.was) : t \notin Present(last.was)
       /\ g \in Review(d).silenced /\ Comparable(first, last) =>
            \E t \in In(last.was, {"skip"}) : t \notin In(first.was, {"skip"})
       /\ g \in Review(d).drop \cup Review(d).silenced =>
            first.command \in Cmds /\ first.command = last.command

(* watch.py:642 "Deleting the test and skipping it reach the same green    *)
(* suite": if a command failed at first and is green in the last run that  *)
(* is recorded, the tests that failed are deleted or skipped, and no test  *)
(* was added or taken up again, then the review flags it.                  *)
ShortcutsFlagged ==
  \A d \in Dirs : \A g \in GroupByCommand(d) :
    LET first == First(d, g)
        last  == Last(d, g)
    IN /\ Comparable(first, last)
       /\ In(first.was, {"fail"}) # {} /\ In(last.was, {"fail"}) = {}
       /\ In(first.was, {"fail"}) \cap In(last.was, {"pass"}) = {}
       /\ Present(last.was) \subseteq Present(first.was)
       /\ Active(last.was) \subseteq Active(first.was)
       => Review(d).drop # {} \/ Review(d).silenced # {}

(* watch.py:263 "a torn final line shouldn't lose the whole session": of   *)
(* all tool calls so far, those missing in the logs are still with their   *)
(* hook, were given up, or were next to a cut, at most two for each; and   *)
(* none is there twice.                                                    *)
Seen    == UNION {{Event(d, i).n : i \in LoadEvents(d)} : d \in Dirs}
Running == {a \in Callers : hook[a] # Nothing}

LogComplete ==
  /\ calls <= Cardinality(Seen) + Cardinality(Running) + failed + 2 * torn
  /\ \A d, e \in Dirs : \A i \in LoadEvents(d), j \in LoadEvents(e) :
       Event(d, i).n = Event(e, j).n => d = e /\ i = j

=============================================================================
