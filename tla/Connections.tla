----------------------------- MODULE Connections -----------------------------
(***************************************************************************)
(* Who talks to Jira with which client, and the stream that carries the     *)
(* answer: core/hosted.py, core/client.py, core/auth.py and the parts of    *)
(* app.py that build, hand out, replace and close a WorkboxClient.          *)
(*                                                                         *)
(* Local mode has one client for the process, built from what the key store *)
(* holds.  Hosted mode has a session table, each session with the client    *)
(* its login was verified with.  A stream keeps the client it began with,   *)
(* whatever happens to its owner, and is written to the browser by          *)
(* _with_heartbeat, which waits for the producer with a timeout.            *)
(*                                                                         *)
(* Clients, sessions and submitted credentials are numbered by the request  *)
(* that brought them: a login's session and client carry one number.        *)
(***************************************************************************)
EXTENDS Naturals, FiniteSets, Functions

CONSTANTS
  TTL,          \* SESSION_TTL, in ticks
  MaxSessions,  \* _MAX_SESSIONS
  MaxMade,      \* bound: logins and setups
  MaxTime,      \* bound on the clock
  Slots,        \* bound: streams
  MaxEvents     \* bound: events a stream produces

ASSUME ConnectionsAssumption ==
  /\ TTL \in Nat /\ MaxSessions \in Nat \ {0}
  /\ MaxMade \in Nat /\ MaxTime \in Nat /\ MaxEvents \in Nat

VARIABLES
  mode,      \* "local" or "hosted": WORKBOX_HOSTED
  up,        \* the process runs
  clock,     \* time.time()
  made,      \* how many logins and setups there were
  open,      \* clients that are not closed
  probes,    \* clients a login is being verified with
  closing,   \* clients whose aclose() is scheduled on the loop
  leaked,    \* clients nobody refers to any more
  sessions,  \* SessionStore._d: touched_at of each session
  loggedOut, \* history: sessions left by their own logout
  singleton, \* the process client, a number, or 0
  connected, \* the credentials it was built from
  keychain,  \* what the key store holds under each name; 0 for nothing
  meddled,   \* history: a write was refused or the command line used since the last setup
  streams    \* the streams: see Idle

clients == <<made, open, probes, closing, leaked>>
table == <<sessions, loggedOut>>
stored == <<singleton, connected, keychain, meddled>>
world == <<mode, up, clock>>
vars == <<world, clients, table, stored, streams>>

Keys == {"site_url", "email", "api_token"}
Nothing == [k \in Keys |-> 0]

(* The stream in a slot: its client, the pending __anext__() task, where the *)
(* generator is suspended, whether the browser still reads, and how many     *)
(* events were produced and written.                                         *)
Idle == [client |-> 0, pending |-> "none", at |-> "free", browser |-> "here",
         produced |-> 0, sent |-> 0]

Init ==
  /\ mode \in {"local", "hosted"} /\ up = TRUE /\ clock = 0
  /\ made = 0 /\ open = {} /\ probes = {} /\ closing = {} /\ leaked = {}
  /\ sessions = <<>> /\ loggedOut = {}
  /\ singleton = 0 /\ connected = Nothing /\ keychain = Nothing /\ meddled = FALSE
  /\ streams = [s \in Slots |-> Idle]

(***************************************************************************)
(* The key store and the process client (local mode)                       *)
(***************************************************************************)

(* load_credentials: nothing, unless all three are there. *)
Complete(chain) == \A k \in Keys : chain[k] # 0

(* set_password is called for one name after another, and each call may be  *)
(* refused; stop is how many went through.                                  *)
WriteOrder == [site_url |-> 1, email |-> 2, api_token |-> 3]
Written(creds, stop) ==
  [k \in Keys |-> IF WriteOrder[k] <= stop THEN creds[k] ELSE keychain[k]]

(* keep_token takes the token the key store has; the site is the new one.   *)
Submitted(n, keep) ==
  [site_url |-> n, email |-> n,
   api_token |-> IF keep THEN keychain.api_token ELSE n]

(* The new client is built first, from what was submitted. *)
SetupCredentials_InstallFirst(keep, stop) ==
  LET n == made + 1
      creds == Submitted(n, keep)
  IN /\ mode = "local" /\ up /\ n <= MaxMade
     /\ keep => Complete(keychain)
     /\ made' = n
     /\ keychain' = Written(creds, stop)
     /\ singleton' = n /\ connected' = creds /\ meddled' = FALSE
     /\ open' = (open \ {singleton}) \union {n}
     /\ UNCHANGED <<world, probes, closing, leaked, table, streams>>
(* The replaced client is not closed. *)
SetupCredentials_OldLeft(keep, stop) ==
  LET n == made + 1
  IN /\ mode = "local" /\ up /\ n <= MaxMade
     /\ keep => Complete(keychain)
     /\ made' = n
     /\ keychain' = Submitted(n, keep)
     /\ singleton' = n /\ connected' = Submitted(n, keep) /\ meddled' = FALSE
     /\ open' = open \union {n}
     /\ UNCHANGED <<world, probes, closing, leaked, table, streams>>
(* setup_credentials: store, then build the client from the same values and *)
(* close the old one (aclose marks it closed before it waits).  A refused   *)
(* write is a 500 before any of that.                                       *)
SetupCredentials(keep, stop) ==
  LET n == made + 1
      creds == Submitted(n, keep)
  IN /\ mode = "local" /\ up /\ n <= MaxMade
     /\ keep => Complete(keychain)
     /\ made' = n
     /\ keychain' = Written(creds, stop)
     /\ IF stop < 3
        THEN meddled' = TRUE /\ UNCHANGED <<singleton, connected, open>>
        ELSE /\ singleton' = n /\ connected' = creds /\ meddled' = FALSE
             /\ open' = (open \ {singleton}) \union {n}
     /\ UNCHANGED <<world, probes, closing, leaked, table, streams>>

(* python -m core.auth setup and delete, beside the server. *)
CommandLine ==
  /\ mode = "local" /\ made < MaxMade
  /\ \E creds \in {Submitted(made + 1, FALSE), Nothing}, stop \in 1..3 :
       keychain' = Written(creds, stop)
  /\ made' = made + 1 /\ meddled' = TRUE
  /\ UNCHANGED <<world, open, probes, closing, leaked, table, singleton, connected, streams>>

(* lifespan: the process ends, in an orderly way or not, and starts again.   *)
Stop ==
  /\ up
  /\ up' = FALSE
  /\ open' = {} /\ probes' = {} /\ closing' = {} /\ leaked' = {}
  /\ sessions' = <<>> /\ singleton' = 0 /\ connected' = Nothing
  /\ streams' = [s \in Slots |-> IF streams[s].at = "free" THEN Idle
                                 ELSE [streams[s] EXCEPT !.at = "killed", !.pending = "none"]]
  /\ UNCHANGED <<mode, clock, made, loggedOut, keychain, meddled>>

Start ==
  /\ ~up /\ made < MaxMade
  /\ up' = TRUE
  /\ IF mode = "local" /\ Complete(keychain)
     THEN /\ made' = made + 1 /\ singleton' = made + 1 /\ connected' = keychain
          /\ open' = {made + 1} /\ meddled' = FALSE
     ELSE UNCHANGED <<made, singleton, connected, open, meddled>>
  /\ UNCHANGED <<mode, clock, probes, closing, leaked, table, keychain, streams>>

(***************************************************************************)
(* Sessions (hosted mode)                                                   *)
(***************************************************************************)

Expired(s) == clock - sessions[s] > TTL

Without(gone) == Restrict(sessions, DOMAIN sessions \ gone)

(* SessionStore.get, with the close it schedules for an expired session.    *)
Touched(s) ==
  IF s \notin DOMAIN sessions THEN sessions
  ELSE IF Expired(s) THEN Without({s})
  ELSE [sessions EXCEPT ![s] = clock]
Swept(s) == {t \in {s} \intersect DOMAIN sessions : Expired(t)}

(* The newest are evicted. *)
Surplus_Newest(live) ==
  {rank \in SUBSET live :
     /\ Cardinality(rank) = (IF Cardinality(live) > MaxSessions
                             THEN Cardinality(live) - MaxSessions ELSE 0)
     /\ \A s \in rank, t \in live \ rank : sessions[s] >= sessions[t]}
(* The oldest-touched of too many live ones; ties are sorted as they come.  *)
Surplus(live) ==
  {rank \in SUBSET live :
     /\ Cardinality(rank) = (IF Cardinality(live) > MaxSessions
                             THEN Cardinality(live) - MaxSessions ELSE 0)
     /\ \A s \in rank, t \in live \ rank : sessions[s] <= sessions[t]}

(* SessionStore._dead: the expired, then the surplus of the rest.  The      *)
(* session about to be made is not counted.                                 *)
Dead ==
  LET expired == {s \in DOMAIN sessions : Expired(s)}
  IN {expired \union more : more \in Surplus(DOMAIN sessions \ expired)}

(* Every request passes hosted_request_context with the cookie it has.      *)
Hosted == mode = "hosted" /\ up

(* session_login: a client to verify the token with; then its answer.       *)
LoginBegin(cookie) ==
  /\ Hosted /\ made < MaxMade
  /\ made' = made + 1
  /\ open' = open \union {made + 1} /\ probes' = probes \union {made + 1}
  /\ sessions' = Touched(cookie) /\ closing' = closing \union Swept(cookie)
  /\ UNCHANGED <<world, leaked, loggedOut, stored, streams>>

LoginRefused(p) ==
  /\ Hosted /\ p \in probes
  /\ probes' = probes \ {p} /\ open' = open \ {p}
  /\ UNCHANGED <<world, made, closing, leaked, table, stored, streams>>

(* An error that is not an UpstreamError leaves the probe unclosed.         *)
LoginBroken(p) ==
  /\ Hosted /\ p \in probes
  /\ probes' = probes \ {p} /\ leaked' = leaked \union {p}
  /\ UNCHANGED <<world, made, open, closing, table, stored, streams>>

(* SessionStore.new and what the login puts into the session.               *)
LoginVerified(p) ==
  /\ Hosted /\ p \in probes
  /\ \E dead \in Dead :
       /\ sessions' = [s \in (DOMAIN sessions \ dead) \union {p} |->
                         IF s = p THEN clock ELSE sessions[s]]
       /\ closing' = closing \union dead
  /\ probes' = probes \ {p}
  /\ UNCHANGED <<world, made, open, leaked, loggedOut, stored, streams>>

(* session_logout: the dependency has swept an expired session already.     *)
Logout(s) ==
  /\ Hosted /\ s \in DOMAIN sessions
  /\ sessions' = Without({s})
  /\ IF Expired(s)
     THEN closing' = closing \union {s} /\ UNCHANGED <<open, loggedOut>>
     ELSE open' = open \ {s} /\ loggedOut' = loggedOut \union {s} /\ UNCHANGED closing
  /\ UNCHANGED <<world, made, probes, leaked, stored, streams>>

(* A request that is not a stream. *)
Visit(s) ==
  /\ Hosted /\ s \in DOMAIN sessions
  /\ sessions' = Touched(s) /\ closing' = closing \union Swept(s)
  /\ UNCHANGED <<world, made, open, probes, leaked, loggedOut, stored, streams>>

(* The task _close_clients created. *)
CloseRuns(c) ==
  /\ c \in closing
  /\ closing' = closing \ {c} /\ open' = open \ {c}
  /\ UNCHANGED <<world, made, probes, leaked, table, stored, streams>>

Tick ==
  /\ up /\ clock < MaxTime
  /\ clock' = clock + 1
  /\ UNCHANGED <<mode, up, clients, table, stored, streams>>

(***************************************************************************)
(* Streams: _with_heartbeat around a producer                               *)
(***************************************************************************)

Set(i, s) == streams' = [streams EXCEPT ![i] = s]
Running(s) == s.pending \in {"running", "event", "stop", "cancelling"}

(* get_client for a request: the session's client, or the process client.   *)
Serving(s) == IF mode = "hosted" THEN s ELSE singleton

(* A request with a cookie that is let through (_require_client) and streams.*)
Begin(i, s) ==
  /\ up /\ streams[i].at = "free"
  /\ IF mode = "hosted" THEN s \in DOMAIN sessions /\ ~Expired(s) ELSE singleton # 0
  /\ Set(i, [Idle EXCEPT !.client = Serving(s), !.pending = "running", !.at = "wait"])
  /\ sessions' = IF mode = "hosted" THEN Touched(s) ELSE sessions
  /\ UNCHANGED <<world, clients, loggedOut, stored>>

(* The producer yields an event, or returns. *)
Produce(i) ==
  LET s == streams[i]
  IN /\ s.pending = "running"
     /\ \/ s.produced < MaxEvents
           /\ Set(i, [s EXCEPT !.pending = "event", !.produced = @ + 1])
        \/ Set(i, [s EXCEPT !.pending = "stop"])
     /\ UNCHANGED <<world, clients, table, stored>>

(* asyncio.wait returned the task. *)
Wake(i) ==
  LET s == streams[i]
  IN /\ s.at = "wait"
     /\ \/ s.pending = "event"
           /\ Set(i, [s EXCEPT !.pending = "none", !.at = "yield", !.sent = @ + 1])
        \/ s.pending = "stop"
           /\ Set(i, [s EXCEPT !.pending = "none", !.at = "over"])
     /\ UNCHANGED <<world, clients, table, stored>>

(* There is no timeout. *)
Ping_Never(i) == FALSE /\ UNCHANGED vars
(* pending is reset in a finally that covers the ping as well. *)
Ping_Forgets(i) ==
  LET s == streams[i]
  IN /\ s.at = "wait" /\ s.pending \in {"running", "event"}
     /\ Set(i, [s EXCEPT !.at = "yield", !.pending = "none"])
     /\ UNCHANGED <<world, clients, table, stored>>
(* The wait timed out; the task goes on, and may end before the next wait.  *)
Ping(i) ==
  LET s == streams[i]
  IN /\ s.at = "wait" /\ s.pending = "running"
     /\ Set(i, [s EXCEPT !.at = "yield"])
     /\ UNCHANGED <<world, clients, table, stored>>

(* finally: a task that is not done is cancelled and awaited, the iterator  *)
(* closed.                                                                  *)
Closed(s) ==
  IF s.pending = "running"
  THEN [s EXCEPT !.at = "finally", !.pending = "cancelling"]
  ELSE [s EXCEPT !.at = "closed", !.pending = "none"]

(* What was yielded is written, and the next event waited for, unless the   *)
(* write finds that the browser is gone.                                    *)
Resume(i) ==
  LET s == streams[i]
  IN /\ s.at = "yield"
     /\ Set(i, IF s.browser = "gone" THEN Closed(s)
               ELSE [s EXCEPT !.at = "wait",
                              !.pending = IF @ = "none" THEN "running" ELSE @])
     /\ UNCHANGED <<world, clients, table, stored>>

(* The server may notice a disconnect while it waits, but need not.         *)
Noticed(i) ==
  /\ streams[i].at = "wait" /\ streams[i].browser = "gone"
  /\ Set(i, Closed(streams[i]))
  /\ UNCHANGED <<world, clients, table, stored>>

Unwind(i) ==
  LET s == streams[i]
  IN /\ s.pending = "cancelling"
     /\ Set(i, [s EXCEPT !.pending = "none", !.at = "closed"])
     /\ UNCHANGED <<world, clients, table, stored>>

Leave(i) ==
  /\ streams[i].at \in {"wait", "yield"} /\ streams[i].browser = "here"
  /\ Set(i, [streams[i] EXCEPT !.browser = "gone"])
  /\ UNCHANGED <<world, clients, table, stored>>

(***************************************************************************)

Next ==
  \/ \E keep \in BOOLEAN, stop \in 0..3 : SetupCredentials(keep, stop)
  \/ CommandLine \/ Stop \/ Start \/ Tick
  \/ \E cookie \in 0..MaxMade : LoginBegin(cookie)
  \/ \E p \in probes : LoginRefused(p) \/ LoginBroken(p) \/ LoginVerified(p)
  \/ \E s \in DOMAIN sessions : Logout(s) \/ Visit(s)
  \/ \E c \in closing : CloseRuns(c)
  \/ \E i \in Slots : \/ \E s \in 0..MaxMade : Begin(i, s)
                      \/ Produce(i) \/ Wake(i) \/ Ping(i) \/ Resume(i)
                      \/ Noticed(i) \/ Unwind(i) \/ Leave(i)

(* The event loop runs what can run: a generator whose task is done, whose  *)
(* wait timed out or whose frame was written, a cancelled producer, a       *)
(* scheduled close.  A producer may stay quiet, Jira may never answer a     *)
(* login, and nobody has to send anything.                                  *)
Fairness ==
  /\ \A i \in Slots : WF_vars(Wake(i)) /\ WF_vars(Ping(i)) /\ WF_vars(Resume(i))
                      /\ WF_vars(Unwind(i))
  /\ \A c \in 1..MaxMade : WF_vars(CloseRuns(c))

Spec == Init /\ [][Next]_vars /\ Fairness

(***************************************************************************)
(* Properties                                                              *)
(***************************************************************************)

TypeOK ==
  /\ mode \in {"local", "hosted"} /\ up \in BOOLEAN /\ clock \in 0..MaxTime
  /\ made \in 0..MaxMade /\ open \subseteq 1..made
  /\ probes \subseteq open /\ closing \subseteq open /\ leaked \subseteq open
  /\ DOMAIN sessions \subseteq 1..made /\ \A s \in DOMAIN sessions : sessions[s] \in 0..clock
  /\ loggedOut \subseteq 1..made /\ singleton \in 0..made /\ meddled \in BOOLEAN
  /\ {connected, keychain} \subseteq [Keys -> 0..made]

(* Every client built has exactly one owner until it is closed: the process, *)
(* a session in the table, a login under way, a scheduled close; and who     *)
(* owns one finds it open, so no request is served with a closed client.     *)
(* Logins, sweeps, logouts and rotations build and close clients in five     *)
(* places (app.py:444, 486, 517; hosted.py:83, 101).                         *)
ClientsOwned ==
  LET process == {singleton} \ {0}
  IN /\ open = process \union DOMAIN sessions \union probes \union closing \union leaked
     /\ Cardinality(open) = Cardinality(process) + Cardinality(DOMAIN sessions)
          + Cardinality(probes) + Cardinality(closing) + Cardinality(leaked)

(* A session is there until its user logs out, SESSION_TTL passes without a  *)
(* request, or more recently used ones fill the table (hosted.py:66).  The   *)
(* login that evicts comes on top of the cap, so one more may be held.       *)
SweptWithReason ==
  [][/\ Cardinality(DOMAIN sessions') <= MaxSessions + 1
     /\ \A s \in DOMAIN sessions \ DOMAIN sessions' :
          \/ ~up'
          \/ s \in loggedOut'
          \/ Expired(s)
          \/ Cardinality({t \in DOMAIN sessions \intersect DOMAIN sessions' :
                             sessions[t] >= sessions[s]}) >= MaxSessions]_vars

(* A restart would connect as the process is connected now: what a setup     *)
(* stored is what it installed, also when it kept the token (app.py:427).    *)
(* Refused writes and the command line are excepted: three writes are not    *)
(* one (auth.py:160).                                                        *)
RestartConnectsAlike ==
  (mode = "local" /\ up /\ ~meddled) =>
    IF singleton = 0 THEN ~Complete(keychain) ELSE connected = keychain

(* "a client disconnect only becomes visible when the server tries to        *)
(* write" (app.py:1887): events reach the browser once each although pings   *)
(* come in between, and a stream that ends by itself has delivered all.      *)
FramesFaithful ==
  \A i \in Slots : LET s == streams[i] IN
    /\ s.at \in {"wait", "yield"} =>
         s.produced = s.sent + (IF s.pending = "event" THEN 1 ELSE 0)
    /\ s.at = "over" => s.produced = s.sent

(* A browser that has gone is noticed although the producer says nothing     *)
(* more, and the producer is brought to its end.                             *)
GoneIsNoticed ==
  \A i \in Slots :
    streams[i].browser = "gone" ~> ~Running(streams[i]) /\ streams[i].at # "wait"

(* "idle lifetime of a session before it is swept" (hosted.py:34): a stream  *)
(* under way has an open client.  Refuted: only the beginning of a request   *)
(* counts as use, and logout and a setup close whatever is in use.           *)
StreamsKeepClient ==
  \A i \in Slots : (up /\ Running(streams[i])) => streams[i].client \in open
=============================================================================
