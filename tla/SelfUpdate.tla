----------------------------- MODULE SelfUpdate -----------------------------
(***************************************************************************)
(* self_update: the update button.  Every click runs `apply` in a thread of *)
(* its own - ask which release there is, pull, install what it requires -   *)
(* and the one that succeeds has the process restarted a moment later.      *)
(* Releases, clicks and pulls happen at any time.                           *)
(***************************************************************************)
EXTENDS Naturals

CONSTANTS Processes, Clicks,
          MaxRelease    \* bound: releases

ASSUME SelfUpdateAssumption == MaxRelease \in Nat

Versions == 0..MaxRelease

VARIABLES
    released,   \* the version on the remote main branch
    code,       \* version.py of the installation
    installed,  \* the version whose requirements are installed
    program,    \* the version each process has loaded, when it was started
    click,      \* where each click is
    overlapped  \* history: a newer release was pulled under another click

update == <<released, code, installed, program, click, overlapped>>

NoClick == [at |-> "none", current |-> 0, pulled |-> 0, process |-> CHOOSE p \in Processes : TRUE]

UpdateInit ==
    /\ released = 0 /\ code = 0 /\ installed = 0
    /\ program = [p \in Processes |-> 0]
    /\ click = [c \in Clicks |-> NoClick]
    /\ overlapped = FALSE

\* The process loads its modules, once.
Load(p) ==
    /\ program' = [program EXCEPT ![p] = code]
    /\ UNCHANGED <<released, code, installed, click, overlapped>>

Release ==
    /\ released < MaxRelease
    /\ released' = released + 1
    /\ UNCHANGED <<code, installed, program, click, overlapped>>

\* check(force=True): the pages it asks may lag behind or run ahead of main.
\* Without a newer release, git or a clean main branch apply ends here.
CheckRelease(c, p) ==
    /\ click[c].at = "none"
    /\ \E latest \in Versions : latest > program[p]
    /\ click' = [click EXCEPT ![c] = [NoClick EXCEPT
                    !.at = "checked", !.current = program[p], !.process = p]]
    /\ UNCHANGED <<released, code, installed, program, overlapped>>

\* The click has pulled, and not had the process restarted yet.
InProgress(c) == click[c].at \in {"pulled", "ready"}

\* git pull; it may fail, or bring nothing newer than the process runs.
Pull(c) ==
    /\ click[c].at = "checked"
    /\ \/ click' = [click EXCEPT ![c] = NoClick] /\ UNCHANGED <<code, overlapped>>
       \/ /\ code' = released
          /\ click' = [click EXCEPT ![c] =
                          IF released = @.current THEN NoClick
                            ELSE [@ EXCEPT !.at = "pulled", !.pulled = released]]
          /\ overlapped' = (overlapped \/ (code' # code /\ \E d \in Clicks : InProgress(d)))
    /\ UNCHANGED <<released, installed, program>>

\* pip install of what was pulled; when it fails the new code stays, and the
\* process goes on with the old.
Install(c) ==
    /\ click[c].at = "pulled"
    /\ \/ click' = [click EXCEPT ![c] = NoClick] /\ UNCHANGED installed
       \/ installed' = click[c].pulled /\ click' = [click EXCEPT ![c].at = "ready"]
    /\ UNCHANGED <<released, code, program, overlapped>>

\* The process ends, and every click in it.
Forget(p) ==
    /\ click' = [c \in Clicks |-> IF click[c].process = p THEN NoClick ELSE click[c]]
    /\ UNCHANGED <<released, code, installed, program, overlapped>>

UpdateTypeOK ==
    /\ {released, code, installed} \subseteq Versions
    /\ program \in [Processes -> Versions] /\ overlapped \in BOOLEAN
    /\ click \in [Clicks -> [at : {"none", "checked", "pulled", "ready"},
                             current : Versions, pulled : Versions, process : Processes]]
=============================================================================
