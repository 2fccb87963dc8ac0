------------------------------ MODULE MCDevLoop -------------------------------
(***************************************************************************)
(* The two programs an author keeps open, forge watch and forge-serve, for *)
(* one run of TLC: `part` chooses one at the start, its steps are the only *)
(* ones, and the other does not run.                                       *)
(***************************************************************************)
EXTENDS Watch, Serve

VARIABLE part

ASSUME ServeAssumption

\* a browser that accepts both codings; nothing, one file or both compressed before the start
BothCodings == {{"br", "gzip"}}
PackedBefore ==
  {{}, {<<"page", "br">>, <<"page", "gzip">>}, {<<"page", "br">>, <<"skin", "gzip">>}}

devVars == <<part, vars, serveVars>>

WatchStopped ==
  /\ cap = 0 /\ pc = "exited" /\ registered = FALSE
  /\ pending = <<>> /\ channel = <<>>
  /\ source = 0 /\ read = 0 /\ site = 0 /\ missed = 0 /\ rebuilds = 0 /\ noise = 0

DevInit ==
  /\ part \in {"watch", "serve"}
  /\ ServeInit
  /\ IF part = "watch" THEN Init /\ sibling[<<"page", "br">>] = Absent ELSE WatchStopped

DevNext ==
  \/ part = "watch" /\ Next /\ UNCHANGED <<part, serveVars>>
  \/ part = "serve" /\ ServeNext /\ UNCHANGED <<part, vars>>

DevSpec == DevInit /\ [][DevNext]_devVars /\ Fairness /\ ServeFairness
=============================================================================
