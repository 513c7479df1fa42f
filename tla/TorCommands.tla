------------------------------ MODULE TorCommands ------------------------------
(***************************************************************************)
(* The terminal's tor commands in src/libc/terminal.cpp: the directory     *)
(* consensus and the choice of the relays, and the commands that call the  *)
(* Tor client (TorCircuit), one at a time, each from its first step to the *)
(* prompt.  The proxy commands run Socks5 in the same way.                 *)
(*                                                                         *)
(* A command is a list of steps still to do.  The user is external, and so *)
(* is the directory: it may fail, answer with something that is no         *)
(* consensus, or list the relays in any order, with any flags and any      *)
(* number of times.                                                        *)
(***************************************************************************)
EXTENDS TorCircuit, Socks5

Flags == BOOLEAN \X BOOLEAN   \* Guard and Exit, of a usable relay

VARIABLES
  cmd, todo,          \* the command, "none" at the prompt, and what is left of it
  torDirectoryReachable,
  torSelectedIdentity, torMiddleIdentity, torExitIdentity,
  torSelectedIp,      \* is it known; nickname and port are kept and cleared with it
  keys,               \* guardKey, middleKey, exitKey of cmdTorAnon
  summary,            \* the relays chosen so far of a consensus being read
  listed, mixed       \* history: the flags each relay has been listed with there,
                      \* and the relays of two roles the last one gave different ones

selVars == <<torSelectedIdentity, torMiddleIdentity, torExitIdentity, torSelectedIp>>
parseVars == <<summary, listed, mixed>>
cmdVars == <<cmd, todo, selVars, torDirectoryReachable, keys, parseVars>>
vars == <<torVars, socksVars, cmdVars>>

NoRoles == [guard |-> None, middle |-> None, exit |-> None]
NotListed == [r \in Relays |-> {}]

Init ==
  /\ TorInit /\ SocksInit
  /\ cmd = "none" /\ todo = <<>> /\ torDirectoryReachable = FALSE
  /\ torSelectedIdentity = None /\ torMiddleIdentity = None /\ torExitIdentity = None
  /\ torSelectedIp = FALSE
  /\ keys = NoRoles /\ summary = NoRoles /\ listed = NotListed /\ mixed = {}

-------------------------------------------------------------------------------
(* Commands *)

\* cmdTorNative: a circuit to the guard.
Build == <<"tls", "link", "create">>

\* cmdTorAnon: the keys of the three relays, and a circuit through them.
Anon == <<"select", "fetch", "middle", "fetch", "exit", "fetch", "guard">> \o Build
        \o <<"extendMiddle", "extendExit", "tcp", "close">>

\* The steps of each command.  "select" stops it where the relays it needs are not
\* known; a call that fails stops it too.
Steps(c) ==
  CASE c = "consensus" -> <<"consensus">>
    [] c = "descriptor" -> <<"select", "fetch">>
    [] c = "tls" -> <<"select", "tls", "close">>
    [] c = "link" -> <<"select", "tls", "link", "close">>
    [] c = "connect" -> <<"manual">> \o Build \o <<"dir", "close">>
    [] c = "circuit" -> <<"select", "fetch">> \o Build \o <<"close">>
    [] c = "stream" -> <<"select", "fetch">> \o Build \o <<"dir", "close">>
    [] c = "auto" -> <<"consensus", "select", "fetch">> \o Build \o <<"dir", "close">>
    [] c = "anon" -> Anon
    [] c = "proxy" -> <<"socks">>
    [] c = "chat" -> <<"chat">>

\* Does a command fetch the consensus first
NeedsConsensus(c) ==
  \/ c = "descriptor" /\ torSelectedIdentity = None
  \/ c \in {"tls", "link"} /\ ~torSelectedIp
  \/ c \in {"circuit", "stream"} /\ (torSelectedIdentity = None \/ ~torSelectedIp)
  \/ c = "anon" /\ None \in {torSelectedIdentity, torMiddleIdentity, torExitIdentity}
  \/ c = "chat" /\ ~torDirectoryReachable

\* May it go on
Selected(c) ==
  /\ torSelectedIdentity # None
  /\ c # "descriptor" => torSelectedIp
  /\ c = "anon" => torMiddleIdentity # None /\ torExitIdentity # None
  /\ c = "auto" => torDirectoryReachable

\* cmdTor, cmdSocks5 and cmdSecureChat, called from the prompt.
Start(c) ==
  /\ cmd = "none" /\ cmd' = c
  /\ todo' = (IF NeedsConsensus(c) THEN <<"consensus">> ELSE <<>>) \o Steps(c)
  /\ UNCHANGED <<torVars, socksVars, selVars, torDirectoryReachable, keys, parseVars>>

\* The keys are static, but no command uses one it has not fetched: they end with it.
ForgetAtPrompt == IF cmd' = "none" THEN Forget ELSE UNCHANGED clientVars
StepsOn == todo' = Tail(todo) /\ cmd' = IF Tail(todo) = <<>> THEN "none" ELSE cmd
Goes == StepsOn /\ keys' = IF cmd' = "none" THEN NoRoles ELSE keys
Prompt == cmd' = "none" /\ todo' = <<>> /\ keys' = NoRoles
At(step) == todo # <<>> /\ Head(todo) = step

-------------------------------------------------------------------------------
(* The consensus *)

ConsensusFails ==
  /\ At("consensus") /\ Goes /\ torDirectoryReachable' = FALSE
  /\ UNCHANGED <<torVars, socksVars, selVars, parseVars>>

\* A reply that is no consensus clears what was chosen, but for the guard's identity.
NoConsensus ==
  /\ At("consensus") /\ Goes /\ torDirectoryReachable' = FALSE
  /\ torMiddleIdentity' = None /\ torExitIdentity' = None /\ torSelectedIp' = FALSE
  /\ UNCHANGED <<torVars, socksVars, torSelectedIdentity, parseVars>>

Consensus ==
  /\ At("consensus") /\ todo' = <<"parse">> \o Tail(todo)
  /\ listed' = NotListed /\ summary' = NoRoles
  /\ UNCHANGED <<torVars, socksVars, cmd, selVars, torDirectoryReachable, keys, mixed>>

\* A mutant: nobody compares the exit with the guard.
AnyExit(r, s) == r # s.middle

\* May relay r be the exit behind what s has chosen
OtherExit(r, s) == r # s.guard /\ r # s.middle

\* parseTorConsensus, an s line behind the r line of a usable relay: the first with
\* the Guard flag, compared with nothing; the first with neither flag that is not the
\* guard; the first with the Exit flag that is not the guard or the middle.
Choose(s, r, isGuard, isExit) ==
  LET g == IF isGuard /\ s.guard = None THEN [s EXCEPT !.guard = r] ELSE s
      m == IF ~isGuard /\ ~isExit /\ g.middle = None /\ r # g.guard
           THEN [g EXCEPT !.middle = r] ELSE g
  IN IF isExit /\ m.exit = None /\ OtherExit(r, m) THEN [m EXCEPT !.exit = r] ELSE m

\* Any relay, listed before or not.  (Of one that has had different flags it does
\* not matter which.)
ParseRelay(r, isGuard, isExit) ==
  /\ At("parse")
  /\ listed' = [listed EXCEPT ![r] = IF @ \subseteq {<<isGuard, isExit>>}
                                     THEN {<<isGuard, isExit>>} ELSE Flags]
  /\ summary' = Choose(summary, r, isGuard, isExit)
  /\ UNCHANGED <<torVars, socksVars, cmd, todo, selVars, torDirectoryReachable, keys, mixed>>

\* Has relay r two roles in s
Twice(s, r) == (r = s.guard /\ r \in {s.middle, s.exit}) \/ (r = s.middle /\ r = s.exit)

\* The end of the text: what it gave replaces what was known.
Parsed ==
  /\ At("parse") /\ Goes /\ torDirectoryReachable' = TRUE
  /\ torSelectedIdentity' = summary.guard /\ torMiddleIdentity' = summary.middle
  /\ torExitIdentity' = summary.exit /\ torSelectedIp' = (summary.guard # None)
  /\ mixed' = {r \in Relays : listed[r] = Flags /\ Twice(summary, r)}
  /\ listed' = NotListed /\ summary' = NoRoles
  /\ UNCHANGED <<torVars, socksVars>>

-------------------------------------------------------------------------------
(* Calls of the Tor client *)

quiet == <<link, call, result, relayVars, inbox, torn, misread, strayed>>

Blocked ==
  /\ At("select") /\ ~Selected(cmd) /\ Prompt
  /\ UNCHANGED <<torVars, socksVars, selVars, torDirectoryReachable, parseVars>>

\* A mutant: the client is left at the relay of the last descriptor.
StillTheExit == [relay |-> torExitIdentity, key |-> ntorKey]

\* The relay to connect to behind the descriptors, and its key
LinkTo == [relay |-> torSelectedIdentity, key |-> keys.guard]

\* reset, setGuard and, where the key is known, setNtorKey.  By hand, the address
\* or the key may be wrong.
Select ==
  /\ \/ /\ At("select") /\ Selected(cmd) /\ UNCHANGED keys
        /\ ResetFor(IF torSelectedIp THEN torSelectedIdentity ELSE None, torSelectedIdentity, NoKey)
     \/ /\ At("middle") /\ keys' = [keys EXCEPT !.guard = ntorKey]
        /\ ResetFor(torMiddleIdentity, torMiddleIdentity, NoKey)
     \/ /\ At("exit") /\ keys' = [keys EXCEPT !.middle = ntorKey]
        /\ ResetFor(torExitIdentity, torExitIdentity, NoKey)
     \/ /\ At("guard") /\ keys' = [keys EXCEPT !.exit = ntorKey]
        /\ ResetFor(LinkTo.relay, LinkTo.relay, LinkTo.key)
     \/ /\ At("manual") /\ UNCHANGED keys
        /\ \E id \in Relays : \E addr \in {id, None}, key \in {id, None} : ResetFor(addr, id, key)
  /\ StepsOn
  /\ UNCHANGED <<quiet, socksVars, selVars, torDirectoryReachable, parseVars>>

\* The relay an extension is for, and its key
Extends(step) == IF step = "extendMiddle" THEN <<torMiddleIdentity, keys.middle>>
                                          ELSE <<torExitIdentity, keys.exit>>

Call ==
  /\ call = "none" /\ result = "none"
  /\ \/ At("fetch") /\ FetchDescriptor
     \/ At("tls") /\ OpenTls
     \/ At("link") /\ LinkHandshake
     \/ At("create") /\ CreateCircuit
     \/ \E step \in {"extendMiddle", "extendExit"} :
          At(step) /\ ExtendCircuit(Extends(step)[1], Extends(step)[2])
     \/ At("dir") /\ BeginFetch("dirConnect")
     \/ At("tcp") /\ BeginFetch("tcpConnect")
  /\ UNCHANGED <<socksVars, cmdVars>>

\* While it waits.
Step ==
  /\ TorStep(IF todo = <<>> THEN None ELSE Extends(Head(todo))[1])
  /\ UNCHANGED <<socksVars, cmdVars>>

\* A call has succeeded; what a stream gave is only shown.
Succeeds ==
  /\ result = "ok" \/ (result = "fail" /\ (At("dir") \/ At("tcp")))
  /\ result' = "none" /\ Goes /\ ForgetAtPrompt
  /\ UNCHANGED <<link, hops, call, relayVars, inbox, torn, misread, strayed,
                 socksVars, selVars, torDirectoryReachable, parseVars>>

\* The calls that fail with nothing closed: a descriptor's, and openTls but for the
\* commands that stop behind it
Unclosed == At("fetch") \/ (At("tls") /\ cmd \notin {"tls", "link"})

\* A mutant: the connection is left open.
LeavesOpen == Prompt /\ UNCHANGED <<link, hops, inbox, path, asked, extra, torn, wide>>

\* What a failed call does to the command
Stops ==
  /\ Prompt
  /\ \/ Unclosed /\ UNCHANGED <<link, hops, inbox, path, asked, extra, torn, wide>>
     \/ ~Unclosed /\ CloseTor

\* A call has failed.
Fails ==
  /\ result = "fail" /\ ~At("dir") /\ ~At("tcp") /\ result' = "none" /\ Stops /\ Forget
  /\ UNCHANGED <<call, misread, strayed, socksVars, selVars,
                 torDirectoryReachable, parseVars>>

Close ==
  /\ At("close") /\ Goes /\ CloseTor /\ ForgetAtPrompt
  /\ UNCHANGED <<call, result, misread, strayed, socksVars, selVars,
                 torDirectoryReachable, parseVars>>

\* cmdSecureChat start refuses in the end.
Refuse ==
  /\ At("chat") /\ Goes
  /\ UNCHANGED <<torVars, socksVars, selVars, torDirectoryReachable, parseVars>>

\* The proxy commands: the call, its steps, and its end.
Socks ==
  /\ At("socks")
  /\ \/ SocksStep /\ UNCHANGED <<cmd, todo, keys>>
     \/ SocksDone /\ Goes
  /\ UNCHANGED <<torVars, selVars, torDirectoryReachable, parseVars>>

Commands == {"consensus", "descriptor", "tls", "link", "connect", "circuit", "stream", "auto",
             "anon", "proxy", "chat"}

Client ==
  \/ ConsensusFails \/ NoConsensus \/ Consensus \/ Parsed
  \/ \E r \in Relays, g \in BOOLEAN, e \in BOOLEAN : ParseRelay(r, g, e)
  \/ Blocked \/ Select \/ Call \/ Step \/ Succeeds \/ Fails \/ Close \/ Refuse \/ Socks

Next == \/ \E c \in Commands : Start(c)
        \/ Client
        \/ RelaysStep /\ UNCHANGED <<socksVars, cmdVars>>

Spec == Init /\ [][Next]_vars

-------------------------------------------------------------------------------
\* At the prompt nothing is open: every command, however it stops, leaves no TLS
\* link, no hop, no cell and no call behind for the next one; of a session that
\* could not be opened it may leave what the guard has answered (terminal.cpp:2785,
\* :2826, :2904-:2942).
NothingOpenAtPrompt ==
  cmd = "none" => link \in {"closed", "half"} /\ hops = <<>> /\ inbox = <<>> /\ call = "none"

\* The relays chosen are different ones, in whatever order, with whatever flags and
\* however often they are listed and whatever an earlier reply left, but for a relay
\* that the one consensus lists with different flags (terminal.cpp:312, :326, :2704).
RolesDiffer ==
  /\ torSelectedIdentity \notin mixed \cup {None} =>
       torSelectedIdentity \notin {torMiddleIdentity, torExitIdentity}
  /\ torMiddleIdentity \notin mixed \cup {None} => torMiddleIdentity # torExitIdentity

\* Every established hop shares keys with the relay it is for, one that has proved
\* its onion key (tor.cpp:349, :462), and the hops are the relays of the roles in
\* their order: the one client object, reused for each descriptor, is back at the
\* guard when it connects (terminal.cpp:2880).
HopsVerified ==
  /\ Len(hops) <= Len(path)
  /\ \A h \in DOMAIN hops : path[h].relay = hops[h].relay /\ hops[h].relay # None
  /\ cmd # "connect" =>
       LET roles == <<torSelectedIdentity, torMiddleIdentity, torExitIdentity>>
       IN \A h \in DOMAIN hops : hops[h].relay = roles[h]
===============================================================================
