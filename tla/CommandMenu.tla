------------------------------ MODULE CommandMenu ------------------------------
(***************************************************************************)
(* The menu that pulse shows without arguments (cli/src/tui): a list of    *)
(* commands in groups, a form for those with arguments, a message that the *)
(* next key closes, and the terminal, which the menu takes over, hands to  *)
(* the command it runs in the same process, and gives back at the end.     *)
(*                                                                         *)
(* Every call that changes the terminal may fail; what draws does not show.*)
(***************************************************************************)
EXTENDS Integers, Sequences, SequencesExt

CONSTANT MaxText   \* bound: how long a text is typed

VARIABLES
  raw,        \* the terminal hands over every key
  alternate,  \* the screen of the menu is shown
  stage,      \* where run_interactive is
  guard,      \* the TerminalGuard exists
  row,        \* the selected row
  help, toast,
  prompt,     \* the form that is open
  ran         \* history: the last command that ran, with its form

screen == <<raw, alternate>>
app == <<row, help, toast, prompt>>
vars == <<screen, stage, guard, app, ran>>

TextField(required) == [toggle |-> FALSE, required |-> required, text |-> <<>>, on |-> FALSE]
ToggleField == [toggle |-> TRUE, required |-> FALSE, text |-> <<>>, on |-> FALSE]

(* Prompt::for_action; the others run at once. *)
ForAction ==
  [new |-> <<TextField(TRUE), TextField(FALSE)>>,
   install |-> <<TextField(TRUE), TextField(TRUE), ToggleField>>,
   uninstall |-> <<TextField(TRUE)>>,
   logs |-> <<TextField(FALSE)>>,
   siggen |-> <<TextField(TRUE)>>]

(* build_rows: a header starts every group.  All commands are runnable. *)
Header == "header"
Rows == <<Header, "new", "build", "install", "uninstall", Header, "doctor", "logs",
          Header, "siggen", "check-offsets", Header, "submit", "upload">>

Items == {i \in DOMAIN Rows : Rows[i] # Header}

NoPrompt == [action |-> "none", fields |-> <<>>, active |-> 0]

FormKinds == {"letter", "blank"}
MenuKeys == FormKinds \cup {"ctrl-c", "q", "esc", "up", "down", "help", "enter", "left", "backspace"}

Blank(f) == \A i \in DOMAIN f.text : f.text[i] = "blank"
Missing(p) == {i \in DOMAIN p.fields : p.fields[i].required /\ Blank(p.fields[i])}

MenuTypeOK ==
  /\ {raw, alternate, guard, help} \subseteq BOOLEAN
  /\ stage \in {"shell", "entering", "menu", "suspending", "running", "waiting", "resuming",
                "leaving", "ended", "unavailable"}
  /\ row \in Items
  /\ toast \in {"none", "required"}
  /\ prompt # NoPrompt => prompt.active \in DOMAIN prompt.fields
  /\ ran.action \in {"none"} \cup {Rows[i] : i \in Items}

Init ==
  /\ raw = FALSE /\ alternate = FALSE
  /\ stage = "shell" /\ guard = FALSE
  /\ row = 2 /\ help = FALSE /\ toast = "none" /\ prompt = NoPrompt
  /\ ran = NoPrompt

------------------------------------------------------------------------------

(* TerminalGuard::enter, and the first frame.  The guard is there when     *)
(* both calls succeeded.                                                   *)
EnterRaw ==
  /\ stage = "shell"
  /\ \/ raw' = TRUE /\ stage' = "entering"
     \/ raw' = raw /\ stage' = "unavailable"
  /\ UNCHANGED <<alternate, guard, app, ran>>

EnterAlternate ==
  /\ stage = "entering"
  /\ \/ alternate' = TRUE /\ guard' = TRUE /\ stage' = "menu"
     \/ stage' = "unavailable" /\ UNCHANGED <<alternate, guard>>
  /\ UNCHANGED <<raw, app, ran>>

(* What is left is dropped: restore_terminal. *)
DropGuard ==
  /\ stage = "leaving"
  /\ raw' = FALSE /\ alternate' = FALSE
  /\ stage' = "ended" /\ guard' = FALSE
  /\ UNCHANGED <<app, ran>>

(* An error of the terminal ends run, and so the guard. *)
TerminalFails ==
  /\ stage \in {"menu", "suspending", "waiting", "resuming"}
  /\ stage' = "leaving"
  /\ UNCHANGED <<screen, guard, app, ran>>

------------------------------------------------------------------------------

(* The next item in the direction, past a header and round the end. *)
MoveSelection(delta) ==
  LET At(k) == 1 + ((row - 1 + k * delta) % Len(Rows))
      steps == CHOOSE k \in 1 .. Len(Rows) :
                 At(k) \in Items /\ \A j \in 1 .. k - 1 : At(j) \notin Items
  IN  row' = At(steps)

(* run_action starts: the terminal goes to the command. *)
RunAction(filled) ==
  /\ ran' = filled
  /\ stage' = "suspending"

MissingFields(p) == Missing(p)

ActivateSelected ==
  IF Rows[row] \in DOMAIN ForAction
  THEN /\ prompt' = [action |-> Rows[row], fields |-> ForAction[Rows[row]], active |-> 1]
       /\ UNCHANGED <<stage, ran>>
  ELSE /\ RunAction([NoPrompt EXCEPT !.action = Rows[row]])
       /\ UNCHANGED prompt

EditField(f, key) ==
  CASE f.toggle -> IF key \in {"blank", "left"} THEN [f EXCEPT !.on = ~@] ELSE f
    [] ~f.toggle /\ key \in FormKinds -> [f EXCEPT !.text = Append(@, key)]
    [] ~f.toggle /\ key = "backspace" -> [f EXCEPT !.text = IF @ = <<>> THEN @ ELSE Front(@)]
    [] OTHER -> f

MoveField(key) ==
  prompt' = [prompt EXCEPT
    !.active = IF key = "up" THEN 1 + ((@ - 2) % Len(prompt.fields)) ELSE 1 + (@ % Len(prompt.fields))]

(* Enter at the last field runs the command when nothing is missing. *)
SubmitPrompt ==
  IF MissingFields(prompt) # {}
  THEN toast' = "required" /\ UNCHANGED <<prompt, stage, ran>>
  ELSE RunAction(prompt) /\ prompt' = NoPrompt /\ UNCHANGED toast

HandlePromptKey(key) ==
  CASE key = "esc" -> prompt' = NoPrompt /\ UNCHANGED <<toast, stage, ran>>
    [] key \in {"up", "down"} -> MoveField(key) /\ UNCHANGED <<toast, stage, ran>>
    [] key = "enter" ->
         IF prompt.active < Len(prompt.fields)
         THEN prompt' = [prompt EXCEPT !.active = @ + 1] /\ UNCHANGED <<toast, stage, ran>>
         ELSE SubmitPrompt
    [] OTHER -> /\ prompt' = [prompt EXCEPT !.fields[prompt.active] = EditField(@, key)]
                /\ UNCHANGED <<toast, stage, ran>>

HandleMenuKey(key) ==
  /\ CASE key \in {"q", "esc"} -> stage' = "leaving" /\ UNCHANGED <<app, ran>>
       [] key \in {"up", "down"} ->
            MoveSelection(IF key = "down" THEN 1 ELSE -1) /\ UNCHANGED <<help, prompt, stage, ran>>
       [] key = "help" -> help' = ~help /\ UNCHANGED <<row, prompt, stage, ran>>
       [] key = "enter" -> ActivateSelected /\ UNCHANGED <<row, help>>
       [] OTHER -> UNCHANGED <<stage, app, ran>>
  /\ UNCHANGED toast

(* handle_key: Ctrl+C first, then the message, then the form.  A q and a ? *)
(* are letters in a form.                                                  *)
AsTyped(key) == IF key \in {"q", "help"} THEN "letter" ELSE key

HandleKey(key) ==
  /\ stage = "menu"
  /\ prompt # NoPrompt /\ AsTyped(key) \in FormKinds =>
       Len(prompt.fields[prompt.active].text) < MaxText \/ prompt.fields[prompt.active].toggle
  /\ CASE key = "ctrl-c" -> stage' = "leaving" /\ UNCHANGED <<app, ran>>
       [] key # "ctrl-c" /\ toast # "none" ->
            toast' = "none" /\ UNCHANGED <<row, help, prompt, stage, ran>>
       [] key # "ctrl-c" /\ toast = "none" /\ prompt # NoPrompt ->
            HandlePromptKey(AsTyped(key)) /\ UNCHANGED <<row, help>>
       [] OTHER -> HandleMenuKey(key)
  /\ UNCHANGED <<screen, guard>>

------------------------------------------------------------------------------

(* Slip: the screen is left, but the terminal stays raw for the command. *)
LeaveTheScreenOnly == alternate' = FALSE /\ raw' = raw

BackToTheShell == raw' = FALSE /\ alternate' = FALSE

SuspendTui ==
  /\ stage = "suspending"
  /\ BackToTheShell
  /\ stage' = "running"
  /\ UNCHANGED <<guard, app, ran>>

(* The command returns, with or without an error. *)
CommandReturns ==
  /\ stage = "running"
  /\ raw' = TRUE
  /\ stage' = "waiting"
  /\ UNCHANGED <<alternate, guard, app, ran>>

(* A Ctrl+C ends the whole process, which is not raw. *)
Interrupt ==
  /\ stage = "running"
  /\ stage' = "ended"
  /\ UNCHANGED <<screen, guard, app, ran>>

(* A panic of the command: the hook restores the terminal, then the guard. *)
CommandPanics ==
  /\ stage = "running"
  /\ raw' = FALSE /\ alternate' = FALSE
  /\ stage' = "leaving"
  /\ UNCHANGED <<guard, app, ran>>

WaitForKeypress ==
  /\ stage = "waiting"
  /\ raw' = FALSE
  /\ stage' = "resuming"
  /\ UNCHANGED <<alternate, guard, app, ran>>

(* resume_tui: its second call may fail when the first did not. *)
ResumeTui ==
  /\ stage = "resuming"
  /\ raw' = TRUE
  /\ \/ alternate' = TRUE /\ stage' = "menu"
     \/ UNCHANGED alternate /\ stage' = "leaving"
  /\ UNCHANGED <<guard, app, ran>>

MenuNext ==
  \/ EnterRaw \/ EnterAlternate \/ DropGuard \/ TerminalFails
  \/ (\E key \in MenuKeys : HandleKey(key))
  \/ SuspendTui \/ CommandReturns \/ Interrupt \/ CommandPanics
  \/ WaitForKeypress \/ ResumeTui

------------------------------------------------------------------------------

(* Whoever reads keys has the terminal he needs: the menu all of it, a     *)
(* command that runs none of it; and once the guard was made, however the  *)
(* menu ends (q, an error, Ctrl+C or a panic in a command), the shell gets *)
(* its terminal back.                                                      *)
TerminalIsHandedOver ==
  /\ stage = "menu" => raw /\ alternate /\ guard
  /\ stage = "running" => ~raw /\ ~alternate
  /\ stage = "ended" => ~raw /\ ~alternate

(* A command runs only with every field it requires filled in, whatever    *)
(* was typed, erased and toggled, and whichever messages were closed.      *)
RunsOnlyFilledForms == ran # NoPrompt => Missing(ran) = {}
==============================================================================
