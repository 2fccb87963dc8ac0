---------------------------- MODULE OperatorFiles -----------------------------
(***************************************************************************)
(* The two files that commands write for the operator to keep: `forge fix  *)
(* --apply` creates static/.well-known/security.txt when the newest report *)
(* misses it, and `forge audit init-hook` installs .githooks/pre-commit.   *)
(* Both look first and write later, with fs::write, which truncates and    *)
(* then fills; the hook is made executable in a third step.  No lock keeps *)
(* two commands apart.  Builds, one after the other, whose phase           *)
(* required_pages looks for security.txt, and the operator, who writes and *)
(* removes either file, run beside them.                                   *)
(***************************************************************************)
EXTENDS Naturals

CONSTANTS
  Commands,      \* processes that run a command, one after the other each
  MaxCommands    \* bound on the commands started

ASSUME FilesAssumption == MaxCommands \in Nat

VARIABLES
  file,       \* name -> [text, executable]
  report,     \* has the newest report the finding on security.txt; "torn" if it does not parse
  looked,     \* what the phase of the running build found, "idle" between builds
  command,    \* process -> its last command: [pc, name, force, linked, said]
  raced,      \* history: process -> the operator has touched its file since it looked
  commands    \* commands started

filesVars == <<file, report, looked, command, raced, commands>>

Names == {"security_txt", "hook"}
Missing == [text |-> "none", executable |-> FALSE]

\* linked: the file the command has opened is still the one of that name
Command == [pc : {"done", "look", "open", "fill", "chmod"}, name : Names, force : BOOLEAN,
            linked : BOOLEAN, said : {"", "ok", "error", "refused", "failed"}]
NoCommand(name, said) ==
  [pc |-> "done", name |-> name, force |-> FALSE, linked |-> FALSE, said |-> said]

FilesTypeOK ==
  /\ file \in [Names -> [text : {"none", "torn", "template", "own"}, executable : BOOLEAN]]
  /\ report \in {"none", "torn", "finding", "clean"}
  /\ looked \in {"idle", "finding", "clean"}
  /\ command \in [Commands -> Command]
  /\ raced \in [Commands -> BOOLEAN] /\ commands \in 0..MaxCommands

FilesInit ==
  /\ file = [n \in Names |-> Missing]
  /\ report = "none" /\ looked = "idle"
  /\ command = [c \in Commands |-> NoCommand("hook", "")]
  /\ raced = [c \in Commands |-> FALSE] /\ commands = 0

-----------------------------------------------------------------------------
(* The operator and the build.                                             *)

\* what an operator may leave: no file, a text of their own (whose mode is not followed), or the
\* canonical hook without or with the x bit, as a checkout or a copy has it
Left(n) ==
  {Missing, [text |-> "own", executable |-> n = "hook"]}
    \union (IF n = "hook" THEN [text : {"template"}, executable : BOOLEAN] ELSE {})

\* the file is written in place, or it is removed or replaced by another of its name
Touch(n, new, inPlace) ==
  /\ file[n] # new
  /\ inPlace => file[n].text # "none" /\ new.text # "none"
  /\ file' = [file EXCEPT ![n] = new]
  /\ command' = [c \in Commands |-> IF command[c].name = n /\ ~inPlace
                                    THEN [command[c] EXCEPT !.linked = FALSE] ELSE command[c]]
  /\ raced' = [c \in Commands |-> raced[c] \/ command[c].name = n]
  /\ UNCHANGED <<report, looked, commands>>

\* required_pages: without a section of that name, or with the check among those to skip, a
\* missing file gives no finding
CheckWellKnown(asked) ==
  /\ looked = "idle"
  /\ looked' = IF asked /\ file["security_txt"].text = "none" THEN "finding" ELSE "clean"
  /\ UNCHANGED <<file, report, command, raced, commands>>

\* a build that dies here leaves no report, or one that does not parse
WriteReport ==
  /\ looked # "idle"
  /\ report' \in {looked, "torn", report}
  /\ looked' = "idle"
  /\ UNCHANGED <<file, command, raced, commands>>

-----------------------------------------------------------------------------
(* The commands.                                                           *)

Start(c, rec) ==
  /\ command[c].pc = "done" /\ commands < MaxCommands
  /\ command' = [command EXCEPT ![c] = rec]
  /\ raced' = [raced EXCEPT ![c] = FALSE]
  /\ commands' = commands + 1
  /\ UNCHANGED <<file, report, looked>>

\* run_fix: no report and one that does not parse are errors; without the finding there is
\* nothing to do, and that is a success
StartFix(c) ==
  Start(c, IF report = "finding" THEN [NoCommand("security_txt", "") EXCEPT !.pc = "look"]
           ELSE NoCommand("security_txt", IF report = "clean" THEN "ok" ELSE "error"))

StartInitHook(c, force) ==
  Start(c, [NoCommand("hook", "") EXCEPT !.pc = "look", !.force = force])

Goes(c, pc, said) ==
  /\ command' = [command EXCEPT ![c].pc = pc, ![c].linked = FALSE, ![c].said = said]
  /\ UNCHANGED <<report, looked, raced, commands>>

\* Mutant of FixFinds: the finding of the report is trusted, whatever is there now
FixFindsNothing == <<"open", "">>

\* apply_create_security_txt: a file that exists is left alone
FixFinds == IF file["security_txt"].text # "none" THEN <<"done", "ok">> ELSE <<"open", "">>

\* cmd_audit_init_hook: up to date, whatever its mode, refused or to be written
HookFinds(force) ==
  CASE file["hook"].text = "none" -> <<"open", "">>
    [] file["hook"].text = "template" -> <<"done", "ok">>
    [] file["hook"].text \in {"own", "torn"} ->
         IF force THEN <<"open", "">> ELSE <<"done", "refused">>

Look(c) ==
  /\ command[c].pc = "look"
  /\ LET found == IF command[c].name = "hook" THEN HookFinds(command[c].force) ELSE FixFinds
     IN  command' = [command EXCEPT ![c].pc = found[1], ![c].said = found[2]]
  /\ raced' = [raced EXCEPT ![c] = FALSE]
  /\ UNCHANGED <<file, report, looked, commands>>

OpenFile(c) ==
  /\ command[c].pc = "open"
  /\ file' = [file EXCEPT ![command[c].name].text = "torn"]
  /\ command' = [command EXCEPT ![c].pc = "fill", ![c].linked = TRUE]
  /\ UNCHANGED <<report, looked, raced, commands>>

\* what the write leaves: a file removed or replaced meanwhile stays as it is, one the operator
\* wrote meanwhile is overwritten, or its end outlives the template
Filled(c, text) ==
  IF ~command[c].linked THEN {text}
  ELSE IF text = "own" THEN {"template", "torn"} ELSE {"template"}

FillFile(c) ==
  /\ command[c].pc = "fill"
  /\ \E text \in Filled(c, file[command[c].name].text) :
       file' = [file EXCEPT ![command[c].name].text = text]
  /\ IF command[c].name = "hook" THEN Goes(c, "chmod", "") ELSE Goes(c, "done", "ok")

\* metadata and set_permissions go by the name
MakeExecutable(c) ==
  /\ command[c].pc = "chmod" /\ file["hook"].text # "none"
  /\ file' = [file EXCEPT !["hook"].executable = TRUE]
  /\ Goes(c, "done", "ok")

\* The command is killed or a step of it fails: the hook's is an error, while fix counts the
\* fix as failed and exits with 0 all the same.
StopEarly(c) ==
  /\ command[c].pc # "done"
  /\ \E said \in {"", IF command[c].name = "hook" THEN "error" ELSE "failed"} :
       Goes(c, "done", said)
  /\ UNCHANGED file

FilesNext ==
  \/ \E n \in Names, inPlace \in BOOLEAN : \E new \in Left(n) : Touch(n, new, inPlace)
  \/ (\E asked \in BOOLEAN : CheckWellKnown(asked)) \/ WriteReport
  \/ \E c \in Commands :
       \/ StartFix(c) \/ (\E force \in BOOLEAN : StartInitHook(c, force))
       \/ Look(c) \/ OpenFile(c) \/ FillFile(c) \/ MakeExecutable(c) \/ StopEarly(c)

FilesSpec == FilesInit /\ [][FilesNext]_filesVars

-----------------------------------------------------------------------------
\* "Never overwrite operator-authored content silently": whatever commands overlap or die, a
\* step of one changes a file with a text of the operator, or its mode, only if the command was
\* forced to, or if the operator has touched the file since the command looked (no look can rule
\* that out: it comes before the write, without a lock).
OwnTextKept ==
  \A c \in Commands :
    command'[c].pc # command[c].pc /\ file[command[c].name].text = "own"
      => \/ UNCHANGED file
         \/ command[c].force \/ raced[c]
OwnTextIsKept == [][OwnTextKept]_filesVars

\* The comments of both commands call them idempotent, and so a success should mean a file that
\* is whole and, for the hook, one that git runs.  TLC refutes it (README, section 6): after a
\* command that died over the file, or beside one that has just truncated it, the next one finds
\* it there and says all is well; so it does of the canonical hook without the x bit, and of a
\* security.txt that was removed, or never asked for, when the newest report has no finding.
OkIsUsable ==
  \A c \in Commands :
    command[c].said = "ok" /\ ~raced[c] =>
      /\ file[command[c].name].text \in {"template", "own"}
      /\ command[c].name = "hook" => file["hook"].executable
=============================================================================
