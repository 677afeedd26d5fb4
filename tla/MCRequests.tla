------------------------------ MODULE MCRequests ------------------------------
(***************************************************************************)
(* What answers a request and what it runs, for TLC: the login throttle,   *)
(* access and watch tokens, the file API with its roots, commands, local   *)
(* shells, SSH host keys and the first start.  They share no state, so     *)
(* each is explored while the others stand still.                          *)
(***************************************************************************)
EXTENDS LoginThrottle, Access, FileApi, FsRoots, ChildCommand, LocalShell, SshHosts,
        FirstStart, TLC

VARIABLE part   \* the component that moves

Parts == {"login", "access", "files", "roots", "command", "shell", "hosts", "start"}

\* The others stand still in one of their initial states.
RequestsInit ==
  /\ part \in Parts
  /\ LoginInit
  /\ AccessInit /\ (part # "access" => file = CHOOSE s \in Settings : TRUE)
  /\ FilesInit /\ (part # "files" => directory = [f \in Files |-> IF f = CHOOSE g \in Files : TRUE THEN 1 ELSE 0])
  /\ FsInit /\ (part # "roots" => tree = CHOOSE t \in Trees : TRUE)
  /\ CommandInit
  /\ part # "command" => program = <<>> /\ held = 0 /\ kind = "exec" /\ prompt
  /\ ShellInit /\ (part # "shell" => punctual)
  /\ HostsInit /\ (part # "hosts" => presented = CHOOSE k \in HostKeys : TRUE)
  /\ StartInit

RequestsNext ==
  /\ part' = part
  /\ \/ /\ part = "login" /\ LoginNext
        /\ UNCHANGED <<accessVars, filesVars, fsVars, commandVars, shellVars, hostsVars, startVars>>
     \/ /\ part = "access" /\ AccessNext
        /\ UNCHANGED <<loginVars, filesVars, fsVars, commandVars, shellVars, hostsVars, startVars>>
     \/ /\ part = "files" /\ FilesNext
        /\ UNCHANGED <<loginVars, accessVars, fsVars, commandVars, shellVars, hostsVars, startVars>>
     \/ /\ part = "roots" /\ FsNext
        /\ UNCHANGED <<loginVars, accessVars, filesVars, commandVars, shellVars, hostsVars, startVars>>
     \/ /\ part = "command" /\ CommandNext
        /\ UNCHANGED <<loginVars, accessVars, filesVars, fsVars, shellVars, hostsVars, startVars>>
     \/ /\ part = "shell" /\ ShellNext
        /\ UNCHANGED <<loginVars, accessVars, filesVars, fsVars, commandVars, hostsVars, startVars>>
     \/ /\ part = "hosts" /\ HostsNext
        /\ UNCHANGED <<loginVars, accessVars, filesVars, fsVars, commandVars, shellVars, startVars>>
     \/ /\ part = "start" /\ StartNext
        /\ UNCHANGED <<loginVars, accessVars, filesVars, fsVars, commandVars, shellVars, hostsVars>>

RequestsSpec ==
  /\ RequestsInit
  /\ [][RequestsNext]_<<part, loginVars, accessVars, filesVars, fsVars, commandVars,
                        shellVars, hostsVars, startVars>>

-------------------------------------------------------------------------------
(* Access: the switch unset, on or off, and a file that forbids more *)

Remote(full, insecure, roots, fs_insecure) ==
  [full_access |-> full, terminal |-> TRUE, terminal_insecure |-> insecure,
   fs |-> TRUE, roots |-> roots, fs_insecure |-> fs_insecure]
MCSettings ==
  {Remote(full, FALSE, TRUE, FALSE) : full \in {"unset", "on", "off"}}
    \cup {Remote("on", TRUE, FALSE, TRUE)}

(* FsRoots: directories r and rx, one name the prefix of the other, with a  *)
(* file rx/a and links inside and outside of the roots                      *)

Plain == [p \in {<<"r">>, <<"r", "a">>, <<"rx">>, <<"rx", "a">>} |->
            IF p = <<"rx", "a">> THEN File ELSE Dir]
LinkOut == <<"r", "l">> :> Link(<<"rx">>)
LinkToNew == <<"r", "l">> :> Link(<<"rx", "new">>)
LinkIn == <<"l">> :> Link(<<"r">>)
MCTrees == {LinkOut @@ Plain, LinkToNew @@ LinkIn @@ Plain}
MCRequested ==
  {<<"r">>, <<"r", "a">>, <<"r", "l">>, <<"r", "l", "a">>, <<"r", "a", "l">>, <<"l", "a">>}
MCConfigured == {<<"r">>, <<"l", "a">>, <<"gone">>}
MCPlanted ==
  {[path |-> <<"r", "a", "l">>, target |-> <<"l", "a">>],
   [path |-> <<"r", "l">>, target |-> <<"r", "a">>],
   [path |-> <<"r", "a", "a">>, target |-> <<"rx", "a">>]}

\* What a command does, in at most four steps.
MCPrograms == UNION {[1..n -> {"out", "err", "in", "group", "away", "hang"}] : n \in 0..4}

\* Logins are interchangeable.
Symmetry == Permutations(Logins)
=============================================================================
