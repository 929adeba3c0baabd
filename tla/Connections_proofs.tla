-------------------------- MODULE Connections_proofs --------------------------
(***************************************************************************)
(* Proofs about clients, sessions and streams, for any number of logins and  *)
(* streams, any lifetime and any cap on sessions: every client has one owner, *)
(* sessions only go for a reason, a restart connects as before, and no frame  *)
(* is lost or doubled.                                                       *)
(***************************************************************************)
EXTENDS Connections, TLAPS, FiniteSetTheorems

(* The client of the process, if there is one.                               *)
Process == {singleton} \ {0}

(* Every open client is the process's, a session's, a login's, the event     *)
(* loop's or nobody's, and never two of these.                               *)
OneOwner ==
  /\ open = Process \union DOMAIN sessions \union probes \union closing \union leaked
  /\ Process \intersect (DOMAIN sessions \union probes \union closing \union leaked) = {}
  /\ DOMAIN sessions \intersect (probes \union closing \union leaked) = {}
  /\ probes \intersect (closing \union leaked) = {}
  /\ closing \intersect leaked = {}

(* A process that is down has no clients.                                    *)
DownIsEmpty == ~up => open = {}

(* A login evicts down to the cap and comes on top of it.                    *)
TableIsBounded == Cardinality(DOMAIN sessions) <= MaxSessions + 1

(* The inductive invariant of the clients.                                   *)
ClientIInv ==
  /\ TypeOK
  /\ OneOwner
  /\ DownIsEmpty
  /\ TableIsBounded
  /\ RestartConnectsAlike

(* A stream, and what its producer may be doing: nothing once it is over.    *)
Stream == [client : Nat, pending : {"none", "running", "event", "stop", "cancelling"},
           at : {"free", "wait", "yield", "over", "finally", "closed", "killed"},
           browser : {"here", "gone"}, produced : Nat, sent : Nat]
StreamsAreTyped ==
  /\ streams \in [Slots -> Stream]
  /\ \A i \in Slots : streams[i].at = "over" => streams[i].pending = "none"

(* The inductive invariant of the streams.                                   *)
StreamIInv == StreamsAreTyped /\ FramesFaithful

(***************************************************************************)
(* Lemmas about the operators                                              *)
(***************************************************************************)

(* A table without some sessions, and one in which a session was used.       *)
LEMMA TableLemma ==
  /\ \A gone : /\ DOMAIN Without(gone) = DOMAIN sessions \ gone
               /\ \A s \in DOMAIN sessions \ gone : Without(gone)[s] = sessions[s]
  /\ \A s : /\ DOMAIN Touched(s) = DOMAIN sessions \ Swept(s)
            /\ \A t \in DOMAIN Touched(s) : Touched(s)[t] = sessions[t] \/ Touched(s)[t] = clock
            /\ Swept(s) \subseteq DOMAIN sessions
            /\ \A t \in Swept(s) : Expired(t)
<1>1. \A gone : /\ DOMAIN Without(gone) = DOMAIN sessions \ gone
                /\ \A s \in DOMAIN sessions \ gone : Without(gone)[s] = sessions[s]
  BY DEF Without, Restrict
<1>2. ASSUME NEW s
      PROVE  /\ DOMAIN Touched(s) = DOMAIN sessions \ Swept(s)
             /\ \A t \in DOMAIN Touched(s) :
                  Touched(s)[t] = sessions[t] \/ Touched(s)[t] = clock
             /\ Swept(s) \subseteq DOMAIN sessions
             /\ \A t \in Swept(s) : Expired(t)
  <2>1. CASE s \notin DOMAIN sessions
    BY <2>1 DEF Touched, Swept
  <2>2. CASE s \in DOMAIN sessions /\ Expired(s)
    BY <1>1, <2>2 DEF Touched, Swept
  <2>3. CASE s \in DOMAIN sessions /\ ~Expired(s)
    BY <2>3 DEF Touched, Swept
  <2> QED
    BY <2>1, <2>2, <2>3
<1> QED
  BY <1>1, <1>2

(* The table holds finitely many sessions.                                   *)
LEMMA SessionsAreFinite ==
  ASSUME TypeOK
  PROVE  /\ IsFiniteSet(open) /\ IsFiniteSet(DOMAIN sessions)
         /\ Cardinality(DOMAIN sessions) \in Nat
<1>1. made \in Nat
  BY ConnectionsAssumption DEF TypeOK, ConnectionsAssumption
<1>2. IsFiniteSet(1..made)
  BY <1>1, FS_Interval
<1> QED
  BY <1>2, FS_Subset, FS_CardinalityType DEF TypeOK

(* Sets that share nothing add up.                                           *)
LEMMA DisjointUnion ==
  ASSUME NEW S, NEW T, IsFiniteSet(S), IsFiniteSet(T), S \intersect T = {}
  PROVE  IsFiniteSet(S \union T) /\ Cardinality(S \union T) = Cardinality(S) + Cardinality(T)
<1>1. Cardinality(S) \in Nat /\ Cardinality(T) \in Nat
  BY FS_CardinalityType
<1>2. /\ IsFiniteSet(S \union T)
      /\ Cardinality(S \union T) = Cardinality(S) + Cardinality(T) - Cardinality(S \intersect T)
  BY FS_Union
<1>3. Cardinality(S \intersect T) = 0
  BY FS_EmptySet
<1> QED
  BY <1>1, <1>2, <1>3

(* What a login throws out: the expired, and of the live ones those that     *)
(* leave MaxSessions which were all used as lately.                          *)
LEMMA DeadLemma ==
  ASSUME TypeOK, NEW dead \in Dead
  PROVE  /\ dead \subseteq DOMAIN sessions
         /\ Cardinality(DOMAIN sessions \ dead) <= MaxSessions
         /\ \A s \in dead :
              \/ Expired(s)
              \/ /\ \A t \in DOMAIN sessions \ dead : sessions[t] >= sessions[s]
                 /\ Cardinality(DOMAIN sessions \ dead) = MaxSessions
<1> DEFINE live == DOMAIN sessions \ {s \in DOMAIN sessions : Expired(s)}
<1>1. PICK rank \in Surplus(live) : dead = {s \in DOMAIN sessions : Expired(s)} \union rank
  BY DEF Dead
<1>2. /\ rank \in SUBSET live
      /\ Cardinality(rank) = (IF Cardinality(live) > MaxSessions
                              THEN Cardinality(live) - MaxSessions ELSE 0)
      /\ \A s \in rank, t \in live \ rank : sessions[s] <= sessions[t]
  BY DEF Surplus
<1>3. DOMAIN sessions \ dead = live \ rank /\ dead \subseteq DOMAIN sessions
  BY <1>1, <1>2
<1>4. /\ IsFiniteSet(live) /\ Cardinality(live) \in Nat
      /\ IsFiniteSet(rank) /\ Cardinality(rank) \in Nat
  BY <1>2, SessionsAreFinite, FS_Subset, FS_CardinalityType
<1>5. Cardinality(live \ rank) = Cardinality(live) - Cardinality(rank)
  <2>1. live \intersect rank = rank
    BY <1>2
  <2> QED
    BY <1>4, <2>1, FS_Difference
<1>6. \A s \in DOMAIN sessions : sessions[s] \in Nat
  BY ConnectionsAssumption DEF TypeOK, ConnectionsAssumption
<1>7. rank # {} => Cardinality(rank) # 0
  BY <1>4, FS_EmptySet
<1>8. /\ Cardinality(live \ rank) <= MaxSessions
      /\ rank # {} => Cardinality(live \ rank) = MaxSessions
  BY <1>2, <1>4, <1>5, <1>7, ConnectionsAssumption DEF ConnectionsAssumption
<1>9. ASSUME NEW s \in dead, ~Expired(s)
      PROVE  /\ \A t \in DOMAIN sessions \ dead : sessions[t] >= sessions[s]
             /\ Cardinality(DOMAIN sessions \ dead) = MaxSessions
  <2>1. s \in rank
    BY <1>1, <1>9
  <2> QED
    BY <1>2, <1>3, <1>6, <1>8, <2>1
<1> QED
  BY <1>3, <1>8, <1>9

LEMMA InitIInv ==
  Init => ClientIInv /\ StreamIInv
<1> SUFFICES ASSUME Init PROVE ClientIInv /\ StreamIInv
  OBVIOUS
<1>1. DOMAIN sessions = {}
  BY DEF Init
<1>2. TypeOK
  <2>1. 0 \in 0..0 /\ Nothing \in [Keys -> 0..0]
    BY DEF Nothing
  <2>2. 0 \in 0..MaxTime /\ 0 \in 0..MaxMade
    BY ConnectionsAssumption DEF ConnectionsAssumption
  <2> QED
    BY <1>1, <2>1, <2>2 DEF Init, TypeOK
<1>3. OneOwner /\ DownIsEmpty
  BY <1>1 DEF Init, OneOwner, DownIsEmpty, Process
<1>4. TableIsBounded
  BY <1>1, FS_EmptySet, ConnectionsAssumption DEF TableIsBounded, ConnectionsAssumption
<1>5. RestartConnectsAlike
  BY DEF Init, RestartConnectsAlike, Complete, Nothing, Keys
<1>6. StreamIInv
  BY DEF Init, StreamIInv, StreamsAreTyped, FramesFaithful, Stream, Idle
<1> QED
  BY <1>2, <1>3, <1>4, <1>5, <1>6 DEF ClientIInv

(***************************************************************************)
(* The clients, action by action                                           *)
(***************************************************************************)

(* A setup replaces the client of the process, or only some names in the key *)
(* store.                                                                    *)
LEMMA SetupKeepsClientIInv ==
  ASSUME ClientIInv, NEW keep \in BOOLEAN, NEW stop \in 0..3, SetupCredentials(keep, stop)
  PROVE  ClientIInv'
<1> DEFINE n == made + 1
           creds == Submitted(n, keep)
<1>1. /\ mode = "local" /\ up /\ n <= MaxMade /\ made' = n /\ keychain' = Written(creds, stop)
      /\ UNCHANGED <<world, probes, closing, leaked, table, streams>>
      /\ stop < 3 => meddled' = TRUE /\ UNCHANGED <<singleton, connected, open>>
      /\ ~(stop < 3) => /\ singleton' = n /\ connected' = creds /\ meddled' = FALSE
                        /\ open' = (open \ {singleton}) \union {n}
  BY DEF SetupCredentials
<1>2. /\ made \in Nat /\ n \in Nat /\ n > 0 /\ n \in 1..n /\ n \in 0..MaxMade
      /\ 0..made \subseteq 0..n /\ 1..made \subseteq 1..n /\ n \notin 1..made /\ 0 \notin 1..made
  BY <1>1, ConnectionsAssumption DEF ClientIInv, TypeOK, ConnectionsAssumption
<1>3. creds \in [Keys -> 0..n]
  <2>1. keychain \in [Keys -> 0..n]
    BY <1>2 DEF ClientIInv, TypeOK
  <2>2. keychain["api_token"] \in 0..n
    BY <2>1 DEF Keys
  <2>3. (IF keep THEN keychain["api_token"] ELSE n) \in 0..n
    BY <1>2, <2>2
  <2> QED
    BY <1>2, <2>3 DEF Submitted, Keys
<1> HIDE DEF creds
<1>4. keychain' \in [Keys -> 0..n] /\ (~(stop < 3) => keychain' = creds)
  <2>1. keychain \in [Keys -> 0..n]
    BY <1>2 DEF ClientIInv, TypeOK
  <2>2. \A k \in Keys : WriteOrder[k] \in 1..3
    BY DEF WriteOrder, Keys
  <2> QED
    BY <1>1, <1>3, <2>1, <2>2 DEF Written
<1> HIDE DEF n
<1>5. /\ open \subseteq 1..made /\ DOMAIN sessions \subseteq 1..made
      /\ UNCHANGED <<mode, up, clock, probes, closing, leaked, sessions, loggedOut>>
  BY <1>1 DEF ClientIInv, TypeOK, world, table
<1>6. OneOwner'
  <2>1. CASE stop < 3
    BY <1>1, <1>5, <2>1 DEF ClientIInv, OneOwner, Process
  <2>2. CASE ~(stop < 3)
    BY <1>1, <1>2, <1>5, <2>2 DEF ClientIInv, OneOwner, Process
  <2> QED
    BY <2>1, <2>2
<1>7. TypeOK'
  <2>1. /\ open' \subseteq 1..n /\ singleton' \in 0..n
        /\ {connected', keychain'} \subseteq [Keys -> 0..n]
        /\ meddled' \in BOOLEAN
    <3>1. /\ singleton \in 0..n /\ connected \in [Keys -> 0..n] /\ open \subseteq 1..n
      BY <1>2 DEF ClientIInv, TypeOK
    <3>2. n \in 0..n
      BY <1>2
    <3>3. CASE stop < 3
      BY <1>1, <1>4, <3>1, <3>3
    <3>4. CASE ~(stop < 3)
      BY <1>1, <1>2, <1>3, <1>4, <3>1, <3>2, <3>4
    <3> QED
      BY <3>3, <3>4
  <2>2. probes' \subseteq open' /\ closing' \subseteq open' /\ leaked' \subseteq open'
    BY <1>6 DEF OneOwner
  <2> QED
    BY <1>1, <1>2, <1>5, <2>1, <2>2 DEF ClientIInv, TypeOK
<1>8. DownIsEmpty' /\ TableIsBounded'
  BY <1>1, <1>5 DEF ClientIInv, DownIsEmpty, TableIsBounded
<1>9. RestartConnectsAlike'
  BY <1>1, <1>2, <1>4 DEF RestartConnectsAlike
<1> QED
  BY <1>6, <1>7, <1>8, <1>9 DEF ClientIInv

LEMMA CommandLineKeepsClientIInv ==
  ASSUME ClientIInv, CommandLine
  PROVE  ClientIInv'
<1> DEFINE n == made + 1
<1>1. PICK creds \in {Submitted(n, FALSE), Nothing}, stop \in 1..3 :
        keychain' = Written(creds, stop)
  BY DEF CommandLine
<1>2. /\ made < MaxMade /\ made' = n /\ meddled' = TRUE
      /\ UNCHANGED <<mode, up, clock, open, probes, closing, leaked, sessions, loggedOut,
                     singleton, connected>>
  BY DEF CommandLine, world, table
<1>3. /\ made \in Nat /\ n \in Nat /\ n > 0 /\ n \in 1..n /\ n \in 0..MaxMade
      /\ 0..made \subseteq 0..n /\ 1..made \subseteq 1..n
  BY <1>2, ConnectionsAssumption DEF ClientIInv, TypeOK, ConnectionsAssumption
<1>4. creds \in [Keys -> 0..n]
  BY <1>3 DEF Submitted, Nothing, Keys
<1>5. keychain' \in [Keys -> 0..n]
  BY <1>1, <1>3, <1>4 DEF Written, ClientIInv, TypeOK
<1> HIDE DEF n
<1>6. TypeOK'
  BY <1>2, <1>3, <1>5 DEF ClientIInv, TypeOK
<1> QED
  BY <1>2, <1>6 DEF ClientIInv, OneOwner, Process, DownIsEmpty, TableIsBounded,
                    RestartConnectsAlike

(* All that is in memory goes.                                               *)
LEMMA StopKeepsClientIInv ==
  ASSUME ClientIInv, Stop
  PROVE  ClientIInv'
<1>1. /\ up' = FALSE /\ open' = {} /\ probes' = {} /\ closing' = {} /\ leaked' = {}
      /\ sessions' = <<>> /\ singleton' = 0 /\ connected' = Nothing
      /\ UNCHANGED <<mode, clock, made, loggedOut, keychain, meddled>>
  BY DEF Stop
<1>2. DOMAIN sessions' = {}
  BY <1>1
<1>3. made \in Nat /\ 0 \in 0..made
  BY ConnectionsAssumption DEF ClientIInv, TypeOK, ConnectionsAssumption
<1>4. TypeOK'
  BY <1>1, <1>2, <1>3 DEF ClientIInv, TypeOK, Nothing
<1>5. TableIsBounded'
  BY <1>2, FS_EmptySet, ConnectionsAssumption DEF TableIsBounded, ConnectionsAssumption
<1> QED
  BY <1>1, <1>2, <1>4, <1>5 DEF ClientIInv, OneOwner, Process, DownIsEmpty, RestartConnectsAlike

(* The process connects with what the key store has, if that is complete.    *)
LEMMA StartKeepsClientIInv ==
  ASSUME ClientIInv, Start
  PROVE  ClientIInv'
<1>1. /\ ~up /\ made < MaxMade /\ up' = TRUE
      /\ UNCHANGED <<mode, clock, probes, closing, leaked, sessions, loggedOut, keychain>>
  BY DEF Start, table
<1>2. /\ open = {} /\ DOMAIN sessions = {} /\ probes = {} /\ closing = {} /\ leaked = {}
      /\ singleton = 0
  <2>1. open = {} /\ Process = {}
    BY <1>1 DEF ClientIInv, DownIsEmpty, OneOwner
  <2> QED
    BY <2>1 DEF ClientIInv, OneOwner, Process
<1>3. /\ made \in Nat /\ made + 1 \in 1..(made + 1) /\ made + 1 # 0 /\ made + 1 \in 0..MaxMade
      /\ 0..made \subseteq 0..(made + 1) /\ 1..made \subseteq 1..(made + 1)
      /\ made + 1 \in 0..(made + 1)
  BY <1>1, ConnectionsAssumption DEF ClientIInv, TypeOK, ConnectionsAssumption
<1>4. CASE mode = "local" /\ Complete(keychain)
  <2>1. /\ made' = made + 1 /\ singleton' = made + 1 /\ connected' = keychain
        /\ open' = {made + 1} /\ meddled' = FALSE
    BY <1>4 DEF Start
  <2>2. TypeOK'
    BY <1>1, <1>2, <1>3, <2>1 DEF ClientIInv, TypeOK
  <2> QED
    BY <1>1, <1>2, <1>3, <2>1, <2>2
    DEF ClientIInv, OneOwner, Process, DownIsEmpty, TableIsBounded, RestartConnectsAlike
<1>5. CASE ~(mode = "local" /\ Complete(keychain))
  <2>1. UNCHANGED <<made, singleton, connected, open, meddled>>
    BY <1>5 DEF Start
  <2>2. TypeOK'
    BY <1>1, <2>1 DEF ClientIInv, TypeOK
  <2> QED
    BY <1>1, <1>2, <1>5, <2>1, <2>2
    DEF ClientIInv, OneOwner, Process, DownIsEmpty, TableIsBounded, RestartConnectsAlike, Complete
<1> QED
  BY <1>4, <1>5

(* What a request may do to clients and sessions leaves the rest alone.      *)
LEMMA HostedKeepsClientIInv ==
  ASSUME ClientIInv, Hosted, UNCHANGED <<mode, up, clock, singleton>>,
         OneOwner', open' \subseteq 1..made', made' \in made..MaxMade,
         DOMAIN sessions' \subseteq 1..made',
         \A s \in DOMAIN sessions' : sessions'[s] \in 0..clock,
         loggedOut' \subseteq 1..made', UNCHANGED <<connected, keychain, meddled>>,
         Cardinality(DOMAIN sessions') <= MaxSessions + 1
  PROVE  ClientIInv'
<1>1. made \in Nat /\ made' \in Nat /\ 0..made \subseteq 0..made' /\ made' \in 0..MaxMade
  BY ConnectionsAssumption DEF ClientIInv, TypeOK, ConnectionsAssumption
<1>2. probes' \subseteq open' /\ closing' \subseteq open' /\ leaked' \subseteq open'
  BY DEF OneOwner
<1>3. singleton' \in 0..made' /\ {connected', keychain'} \subseteq [Keys -> 0..made']
  BY <1>1 DEF ClientIInv, TypeOK
<1>4. TypeOK'
  BY <1>1, <1>2, <1>3 DEF ClientIInv, TypeOK
<1> QED
  BY <1>4 DEF ClientIInv, Hosted, DownIsEmpty, TableIsBounded, RestartConnectsAlike

(* Fewer sessions are not more than the table may hold.                      *)
LEMMA FewerSessions ==
  ASSUME ClientIInv, NEW S \in SUBSET DOMAIN sessions
  PROVE  IsFiniteSet(S) /\ Cardinality(S) \in Nat /\ Cardinality(S) <= MaxSessions + 1
<1>1. IsFiniteSet(S) /\ Cardinality(S) <= Cardinality(DOMAIN sessions) /\ Cardinality(S) \in Nat
  BY SessionsAreFinite, FS_Subset, FS_CardinalityType DEF ClientIInv
<1> QED
  BY <1>1, SessionsAreFinite, ConnectionsAssumption
  DEF ClientIInv, TableIsBounded, ConnectionsAssumption

(* A login begins with a client of its own.                                  *)
LEMMA LoginBeginKeepsClientIInv ==
  ASSUME ClientIInv, NEW cookie \in 0..MaxMade, LoginBegin(cookie)
  PROVE  ClientIInv'
<1>1. /\ Hosted /\ made < MaxMade /\ made' = made + 1
      /\ open' = open \union {made + 1} /\ probes' = probes \union {made + 1}
      /\ sessions' = Touched(cookie) /\ closing' = closing \union Swept(cookie)
      /\ UNCHANGED <<mode, up, clock, leaked, loggedOut, singleton, connected, keychain, meddled>>
  BY DEF LoginBegin, world, stored
<1>2. /\ made \in Nat /\ made' \in made..MaxMade /\ 1..made \subseteq 1..made'
      /\ made + 1 \notin 1..made /\ made + 1 \in 1..made' /\ clock \in Nat
      /\ open \subseteq 1..made
  BY <1>1, ConnectionsAssumption DEF ClientIInv, TypeOK, ConnectionsAssumption
<1>3. /\ DOMAIN sessions' = DOMAIN sessions \ Swept(cookie) /\ Swept(cookie) \subseteq DOMAIN sessions
      /\ \A t \in DOMAIN sessions' : sessions'[t] = sessions[t] \/ sessions'[t] = clock
  BY <1>1, TableLemma
<1>4. OneOwner'
  BY <1>1, <1>2, <1>3 DEF ClientIInv, OneOwner, Process
<1>5. \A s \in DOMAIN sessions' : sessions'[s] \in 0..clock
  BY <1>2, <1>3 DEF ClientIInv, TypeOK
<1>6. /\ open' \subseteq 1..made' /\ DOMAIN sessions' \subseteq 1..made'
      /\ loggedOut' \subseteq 1..made'
  BY <1>1, <1>2, <1>3 DEF ClientIInv, TypeOK
<1>7. Cardinality(DOMAIN sessions') <= MaxSessions + 1
  BY <1>3, FewerSessions
<1> QED
  BY <1>1, <1>2, <1>4, <1>5, <1>6, <1>7, HostedKeepsClientIInv

(* A login that is not verified ends its client, or forgets it.              *)
LEMMA LoginFailsKeepsClientIInv ==
  ASSUME ClientIInv, NEW p \in probes, LoginRefused(p) \/ LoginBroken(p)
  PROVE  ClientIInv'
<1>1. /\ Hosted /\ probes' = probes \ {p}
      /\ \/ open' = open \ {p} /\ leaked' = leaked
         \/ open' = open /\ leaked' = leaked \union {p}
      /\ UNCHANGED <<mode, up, clock, made, closing, sessions, loggedOut,
                     singleton, connected, keychain, meddled>>
  BY DEF LoginRefused, LoginBroken, world, table, stored
<1>2. OneOwner'
  BY <1>1 DEF ClientIInv, OneOwner, Process
<1>3. /\ made' \in made..MaxMade /\ open' \subseteq 1..made' /\ DOMAIN sessions' \subseteq 1..made'
      /\ loggedOut' \subseteq 1..made' /\ \A s \in DOMAIN sessions' : sessions'[s] \in 0..clock
  <2>1. made \in made..MaxMade
    BY ConnectionsAssumption DEF ClientIInv, TypeOK, ConnectionsAssumption
  <2> QED
    BY <1>1, <2>1 DEF ClientIInv, TypeOK
<1>4. Cardinality(DOMAIN sessions') <= MaxSessions + 1
  BY <1>1, FewerSessions
<1> QED
  BY <1>1, <1>2, <1>3, <1>4, HostedKeepsClientIInv

(* A login that is verified passes its client to its session.                *)
LEMMA LoginVerifiedKeepsClientIInv ==
  ASSUME ClientIInv, NEW p \in probes, LoginVerified(p)
  PROVE  ClientIInv'
<1>1. PICK dead \in Dead :
        /\ sessions' = [s \in (DOMAIN sessions \ dead) \union {p} |->
                          IF s = p THEN clock ELSE sessions[s]]
        /\ closing' = closing \union dead
  BY DEF LoginVerified
<1>2. /\ Hosted /\ probes' = probes \ {p}
      /\ UNCHANGED <<mode, up, clock, made, open, leaked, loggedOut,
                     singleton, connected, keychain, meddled>>
  BY DEF LoginVerified, world, stored
<1>3. /\ dead \subseteq DOMAIN sessions /\ Cardinality(DOMAIN sessions \ dead) <= MaxSessions
      /\ DOMAIN sessions' = (DOMAIN sessions \ dead) \union {p}
  BY <1>1, DeadLemma DEF ClientIInv
<1>4. OneOwner'
  BY <1>1, <1>2, <1>3 DEF ClientIInv, OneOwner, Process
<1>5. /\ made' \in made..MaxMade /\ open' \subseteq 1..made' /\ DOMAIN sessions' \subseteq 1..made'
      /\ loggedOut' \subseteq 1..made' /\ \A s \in DOMAIN sessions' : sessions'[s] \in 0..clock
  <2>1. made \in Nat /\ clock \in Nat /\ p \in 1..made
    BY ConnectionsAssumption DEF ClientIInv, TypeOK, ConnectionsAssumption
  <2> QED
    BY <1>1, <1>2, <1>3, <2>1, ConnectionsAssumption DEF ClientIInv, TypeOK, ConnectionsAssumption
<1>6. Cardinality(DOMAIN sessions') <= MaxSessions + 1
  <2>1. /\ IsFiniteSet(DOMAIN sessions \ dead)
        /\ Cardinality(DOMAIN sessions \ dead) \in Nat
    BY FewerSessions
  <2>2. Cardinality((DOMAIN sessions \ dead) \union {p}) \in
          {Cardinality(DOMAIN sessions \ dead), Cardinality(DOMAIN sessions \ dead) + 1}
    BY <2>1, FS_AddElement
  <2>3. Cardinality((DOMAIN sessions \ dead) \union {p}) \in Nat
    BY <2>1, FS_AddElement, FS_CardinalityType
  <2> QED
    BY <1>3, <2>1, <2>2, <2>3, ConnectionsAssumption DEF ConnectionsAssumption
<1> QED
  BY <1>2, <1>4, <1>5, <1>6, HostedKeepsClientIInv

(* A logout closes the client itself, a sweep has it closed.                 *)
LEMMA LogoutKeepsClientIInv ==
  ASSUME ClientIInv, NEW s \in DOMAIN sessions, Logout(s)
  PROVE  ClientIInv'
<1>1. /\ Hosted /\ sessions' = Without({s})
      /\ \/ closing' = closing \union {s} /\ open' = open /\ loggedOut' = loggedOut
         \/ open' = open \ {s} /\ loggedOut' = loggedOut \union {s} /\ closing' = closing
      /\ UNCHANGED <<mode, up, clock, made, probes, leaked, singleton, connected, keychain, meddled>>
  BY DEF Logout, world, stored
<1>2. /\ DOMAIN sessions' = DOMAIN sessions \ {s}
      /\ \A t \in DOMAIN sessions' : sessions'[t] = sessions[t]
  BY <1>1, TableLemma
<1>3. OneOwner'
  BY <1>1, <1>2 DEF ClientIInv, OneOwner, Process
<1>4. /\ made' \in made..MaxMade /\ open' \subseteq 1..made' /\ DOMAIN sessions' \subseteq 1..made'
      /\ loggedOut' \subseteq 1..made' /\ \A t \in DOMAIN sessions' : sessions'[t] \in 0..clock
  <2>1. made \in made..MaxMade
    BY ConnectionsAssumption DEF ClientIInv, TypeOK, ConnectionsAssumption
  <2> QED
    BY <1>1, <1>2, <2>1 DEF ClientIInv, TypeOK
<1>5. Cardinality(DOMAIN sessions') <= MaxSessions + 1
  BY <1>2, FewerSessions
<1> QED
  BY <1>1, <1>3, <1>4, <1>5, HostedKeepsClientIInv

(* Any other request may find its session expired, and uses it otherwise.    *)
LEMMA VisitKeepsClientIInv ==
  ASSUME ClientIInv, NEW s \in DOMAIN sessions, Visit(s)
  PROVE  ClientIInv'
<1>1. /\ Hosted /\ sessions' = Touched(s) /\ closing' = closing \union Swept(s)
      /\ UNCHANGED <<mode, up, clock, made, open, probes, leaked, loggedOut,
                     singleton, connected, keychain, meddled>>
  BY DEF Visit, world, stored
<1>2. /\ DOMAIN sessions' = DOMAIN sessions \ Swept(s) /\ Swept(s) \subseteq DOMAIN sessions
      /\ \A t \in DOMAIN sessions' : sessions'[t] = sessions[t] \/ sessions'[t] = clock
  BY <1>1, TableLemma
<1>3. OneOwner'
  BY <1>1, <1>2 DEF ClientIInv, OneOwner, Process
<1>4. /\ made' \in made..MaxMade /\ open' \subseteq 1..made' /\ DOMAIN sessions' \subseteq 1..made'
      /\ loggedOut' \subseteq 1..made' /\ \A t \in DOMAIN sessions' : sessions'[t] \in 0..clock
  <2>1. clock \in Nat
    BY ConnectionsAssumption DEF ClientIInv, TypeOK, ConnectionsAssumption
  <2> QED
    BY <1>1, <1>2, <2>1, ConnectionsAssumption DEF ClientIInv, TypeOK, ConnectionsAssumption
<1>5. Cardinality(DOMAIN sessions') <= MaxSessions + 1
  BY <1>2, FewerSessions
<1> QED
  BY <1>1, <1>3, <1>4, <1>5, HostedKeepsClientIInv

(* What was scheduled to be closed is closed.                                *)
LEMMA CloseRunsKeepsClientIInv ==
  ASSUME ClientIInv, NEW c \in closing, CloseRuns(c)
  PROVE  ClientIInv'
<1>1. /\ closing' = closing \ {c} /\ open' = open \ {c}
      /\ UNCHANGED <<mode, up, clock, made, probes, leaked, sessions, loggedOut,
                     singleton, connected, keychain, meddled>>
  BY DEF CloseRuns, world, table, stored
<1>2. OneOwner'
  BY <1>1 DEF ClientIInv, OneOwner, Process
<1>3. TypeOK'
  <2>1. probes' \subseteq open' /\ closing' \subseteq open' /\ leaked' \subseteq open'
    BY <1>2 DEF OneOwner
  <2> QED
    BY <1>1, <2>1 DEF ClientIInv, TypeOK
<1> QED
  BY <1>1, <1>2, <1>3 DEF ClientIInv, DownIsEmpty, TableIsBounded, RestartConnectsAlike

LEMMA TickKeepsClientIInv ==
  ASSUME ClientIInv, Tick
  PROVE  ClientIInv'
<1>1. /\ clock < MaxTime /\ clock' = clock + 1
      /\ UNCHANGED <<mode, up, made, open, probes, closing, leaked, sessions, loggedOut,
                     singleton, connected, keychain, meddled>>
  BY DEF Tick, clients, table, stored
<1>2. clock \in Nat /\ clock' \in 0..MaxTime /\ 0..clock \subseteq 0..clock'
  BY <1>1, ConnectionsAssumption DEF ClientIInv, TypeOK, ConnectionsAssumption
<1>3. TypeOK'
  BY <1>1, <1>2 DEF ClientIInv, TypeOK
<1> QED
  BY <1>1, <1>3 DEF ClientIInv, OneOwner, Process, DownIsEmpty, TableIsBounded,
                    RestartConnectsAlike

(* What a stream does, its beginning included, touches at most its session.  *)
LEMMA StreamStepKeepsClientIInv ==
  ASSUME ClientIInv,
         UNCHANGED <<mode, up, clock, made, open, probes, closing, leaked, loggedOut,
                     singleton, connected, keychain, meddled>>,
         DOMAIN sessions' = DOMAIN sessions,
         \A t \in DOMAIN sessions : sessions'[t] = sessions[t] \/ sessions'[t] = clock
  PROVE  ClientIInv'
<1>1. clock \in 0..clock
  BY ConnectionsAssumption DEF ClientIInv, TypeOK, ConnectionsAssumption
<1>2. TypeOK'
  BY <1>1 DEF ClientIInv, TypeOK
<1> QED
  BY <1>2 DEF ClientIInv, OneOwner, Process, DownIsEmpty, TableIsBounded, RestartConnectsAlike

LEMMA BeginKeepsClientIInv ==
  ASSUME ClientIInv, NEW i \in Slots, NEW s \in 0..MaxMade, Begin(i, s)
  PROVE  ClientIInv'
<1>1. /\ sessions' = IF mode = "hosted" THEN Touched(s) ELSE sessions
      /\ mode = "hosted" => s \in DOMAIN sessions /\ ~Expired(s)
      /\ UNCHANGED <<mode, up, clock, made, open, probes, closing, leaked, loggedOut,
                     singleton, connected, keychain, meddled>>
  BY DEF Begin, world, clients, stored
<1>2. mode = "hosted" => Swept(s) = {}
  BY <1>1 DEF Swept
<1>3. /\ DOMAIN sessions' = DOMAIN sessions
      /\ \A t \in DOMAIN sessions : sessions'[t] = sessions[t] \/ sessions'[t] = clock
  BY <1>1, <1>2, TableLemma
<1> QED
  BY <1>1, <1>3, StreamStepKeepsClientIInv

(* The steps of a stream once it has begun.                                  *)
StreamStep(i) ==
  Produce(i) \/ Wake(i) \/ Ping(i) \/ Resume(i) \/ Noticed(i) \/ Unwind(i) \/ Leave(i)

LEMMA ClientInvariance ==
  ClientIInv /\ [Next]_vars => ClientIInv'
<1> SUFFICES ASSUME ClientIInv, [Next]_vars PROVE ClientIInv'
  OBVIOUS
<1>1. CASE UNCHANGED vars
  BY <1>1, StreamStepKeepsClientIInv DEF vars, world, clients, table, stored
<1>2. ASSUME NEW keep \in BOOLEAN, NEW stop \in 0..3, SetupCredentials(keep, stop)
      PROVE  ClientIInv'
  BY <1>2, SetupKeepsClientIInv
<1>3. ASSUME CommandLine \/ Stop \/ Start \/ Tick PROVE ClientIInv'
  BY <1>3, CommandLineKeepsClientIInv, StopKeepsClientIInv, StartKeepsClientIInv,
     TickKeepsClientIInv
<1>4. ASSUME NEW cookie \in 0..MaxMade, LoginBegin(cookie) PROVE ClientIInv'
  BY <1>4, LoginBeginKeepsClientIInv
<1>5. ASSUME NEW p \in probes, LoginRefused(p) \/ LoginBroken(p) \/ LoginVerified(p)
      PROVE  ClientIInv'
  BY <1>5, LoginFailsKeepsClientIInv, LoginVerifiedKeepsClientIInv
<1>6. ASSUME NEW s \in DOMAIN sessions, Logout(s) \/ Visit(s) PROVE ClientIInv'
  BY <1>6, LogoutKeepsClientIInv, VisitKeepsClientIInv
<1>7. ASSUME NEW c \in closing, CloseRuns(c) PROVE ClientIInv'
  BY <1>7, CloseRunsKeepsClientIInv
<1>8. ASSUME NEW i \in Slots, NEW s \in 0..MaxMade, Begin(i, s) PROVE ClientIInv'
  BY <1>8, BeginKeepsClientIInv
<1>9. ASSUME NEW i \in Slots, StreamStep(i) PROVE ClientIInv'
  BY <1>9, StreamStepKeepsClientIInv
  DEF StreamStep, Produce, Wake, Ping, Resume, Noticed, Unwind, Leave,
      world, clients, table, stored
<1> QED
  BY <1>1, <1>2, <1>3, <1>4, <1>5, <1>6, <1>7, <1>8, <1>9 DEF Next, StreamStep

(***************************************************************************)
(* The streams                                                             *)
(***************************************************************************)

(* One stream moves, and keeps count.                                        *)
LEMMA OneStreamMoves ==
  ASSUME StreamIInv, NEW i \in Slots, NEW s \in Stream, Set(i, s),
         s.at = "over" => s.pending = "none" /\ s.produced = s.sent,
         s.at \in {"wait", "yield"} =>
           s.produced = s.sent + (IF s.pending = "event" THEN 1 ELSE 0)
  PROVE  StreamIInv'
<1>1. /\ streams' \in [Slots -> Stream] /\ streams'[i] = s
      /\ \A j \in Slots \ {i} : streams'[j] = streams[j]
  BY DEF Set, StreamIInv, StreamsAreTyped
<1> QED
  BY <1>1 DEF StreamIInv, StreamsAreTyped, FramesFaithful

LEMMA StreamInvariance ==
  ClientIInv /\ StreamIInv /\ [Next]_vars => StreamIInv'
<1> SUFFICES ASSUME ClientIInv, StreamIInv, [Next]_vars PROVE StreamIInv'
  OBVIOUS
<1>1. CASE UNCHANGED streams
  BY <1>1 DEF StreamIInv, StreamsAreTyped, FramesFaithful
<1>2. ASSUME Stop PROVE StreamIInv'
  <2>1. streams' = [s \in Slots |-> IF streams[s].at = "free" THEN Idle
                                    ELSE [streams[s] EXCEPT !.at = "killed", !.pending = "none"]]
    BY <1>2 DEF Stop
  <2> QED
    BY <2>1 DEF StreamIInv, StreamsAreTyped, FramesFaithful, Idle, Stream
<1>3. ASSUME NEW i \in Slots, NEW s \in 0..MaxMade, Begin(i, s) PROVE StreamIInv'
  <2>1. Serving(s) \in Nat
    BY ConnectionsAssumption DEF Serving, ClientIInv, TypeOK, ConnectionsAssumption
  <2> DEFINE new == [Idle EXCEPT !.client = Serving(s), !.pending = "running", !.at = "wait"]
  <2>2. /\ new \in Stream /\ new.at = "wait" /\ new.pending = "running"
        /\ new.produced = 0 /\ new.sent = 0
    BY <2>1 DEF Idle, Stream
  <2>3. Set(i, new)
    BY <1>3 DEF Begin
  <2> HIDE DEF new
  <2> QED
    BY <2>2, <2>3, OneStreamMoves
<1>4. ASSUME NEW i \in Slots, StreamStep(i) PROVE StreamIInv'
  <2>1. /\ streams[i] \in Stream
        /\ streams[i].at = "over" => streams[i].pending = "none"
        /\ streams[i].at \in {"wait", "yield"} =>
             streams[i].produced = streams[i].sent + (IF streams[i].pending = "event" THEN 1 ELSE 0)
        /\ streams[i].at = "over" => streams[i].produced = streams[i].sent
    BY DEF StreamIInv, StreamsAreTyped, FramesFaithful
  <2>2. CASE Produce(i)
    <3>1. PICK old \in Stream : old = streams[i]
      BY <2>1
    <3>2. /\ old.pending = "running"
          /\ \/ Set(i, [old EXCEPT !.pending = "event", !.produced = @ + 1])
             \/ Set(i, [old EXCEPT !.pending = "stop"])
      BY <2>2, <3>1 DEF Produce
    <3>3. CASE Set(i, [old EXCEPT !.pending = "event", !.produced = @ + 1])
      <4>1. PICK new : new = [old EXCEPT !.pending = "event", !.produced = @ + 1]
        OBVIOUS
      <4>2. /\ new \in Stream /\ new.at = old.at /\ new.pending = "event"
            /\ new.produced = old.produced + 1 /\ new.sent = old.sent /\ old.sent \in Nat
        <5>1. old.produced + 1 \in Nat /\ old.sent \in Nat
          BY DEF Stream
        <5>2. DOMAIN old = {"client", "pending", "at", "browser", "produced", "sent"}
          BY DEF Stream
        <5> QED
          BY <4>1, <5>1, <5>2 DEF Stream
      <4>3. old.at # "over" /\ (old.at \in {"wait", "yield"} => old.produced = old.sent + 0)
        BY <2>1, <3>1, <3>2
      <4>4. /\ Set(i, new) /\ new.at # "over"
            /\ new.at \in {"wait", "yield"} => new.produced = new.sent + 1
        BY <3>3, <4>1, <4>2, <4>3
      <4> QED
        BY <4>2, <4>3, <4>4, OneStreamMoves
    <3>4. CASE Set(i, [old EXCEPT !.pending = "stop"])
      <4>1. PICK new : new = [old EXCEPT !.pending = "stop"]
        OBVIOUS
      <4>2. /\ new \in Stream /\ new.at = old.at /\ new.pending = "stop"
            /\ new.produced = old.produced /\ new.sent = old.sent
        BY <4>1 DEF Stream
      <4>3. old.at # "over" /\ (old.at \in {"wait", "yield"} => old.produced = old.sent + 0)
        BY <2>1, <3>1, <3>2
      <4> QED
        BY <3>4, <4>1, <4>2, <4>3, OneStreamMoves
    <3> QED
      BY <3>2, <3>3, <3>4
  <2>3. CASE Wake(i)
    <3>1. PICK old \in Stream : old = streams[i]
      BY <2>1
    <3>2. /\ old.at = "wait" /\ old.sent \in Nat
          /\ old.produced = old.sent + (IF old.pending = "event" THEN 1 ELSE 0)
      BY <2>1, <2>3, <3>1 DEF Wake, Stream
    <3>3. CASE /\ old.pending = "event"
               /\ Set(i, [old EXCEPT !.pending = "none", !.at = "yield", !.sent = @ + 1])
      <4>1. PICK new : new = [old EXCEPT !.pending = "none", !.at = "yield", !.sent = @ + 1]
        OBVIOUS
      <4>2. /\ new \in Stream /\ new.at = "yield" /\ new.pending = "none"
            /\ new.produced = old.produced /\ new.sent = old.sent + 1
        <5>1. old.sent + 1 \in Nat
          BY DEF Stream
        <5>2. DOMAIN old = {"client", "pending", "at", "browser", "produced", "sent"}
          BY DEF Stream
        <5> QED
          BY <4>1, <5>1, <5>2 DEF Stream
      <4>3. Set(i, new) /\ new.produced = new.sent + 0
        BY <3>2, <3>3, <4>1, <4>2
      <4> QED
        BY <4>2, <4>3, OneStreamMoves
    <3>4. CASE /\ old.pending = "stop"
               /\ Set(i, [old EXCEPT !.pending = "none", !.at = "over"])
      <4>1. PICK new : new = [old EXCEPT !.pending = "none", !.at = "over"]
        OBVIOUS
      <4>2. /\ new \in Stream /\ new.at = "over" /\ new.pending = "none"
            /\ new.produced = old.produced /\ new.sent = old.sent
        BY <4>1 DEF Stream
      <4>3. Set(i, new) /\ new.produced = new.sent
        BY <3>2, <3>4, <4>1, <4>2
      <4> QED
        BY <4>2, <4>3, OneStreamMoves
    <3> QED
      BY <2>3, <3>1, <3>3, <3>4 DEF Wake
  <2>4. CASE Ping(i)
    BY <2>1, <2>4, OneStreamMoves DEF Ping, Stream
  <2>5. CASE Resume(i)
    BY <2>1, <2>5, OneStreamMoves DEF Resume, Closed, Stream
  <2>6. CASE Noticed(i) \/ Unwind(i) \/ Leave(i)
    BY <2>1, <2>6, OneStreamMoves DEF Noticed, Unwind, Leave, Closed, Stream
  <2> QED
    BY <1>4, <2>2, <2>3, <2>4, <2>5, <2>6 DEF StreamStep
<1>5. [Next]_vars => \/ UNCHANGED streams \/ Stop
                     \/ \E i \in Slots : StreamStep(i) \/ \E s \in 0..MaxMade : Begin(i, s)
  BY DEF Next, StreamStep, vars, SetupCredentials, CommandLine, Start, Tick, LoginBegin,
         LoginRefused, LoginBroken, LoginVerified, Logout, Visit, CloseRuns
<1> QED
  BY <1>1, <1>2, <1>3, <1>4, <1>5

(***************************************************************************)
(* Theorems                                                                *)
(***************************************************************************)

(* No state of the program breaks the two inductive invariants.              *)
THEOREM Invariance == Spec => [](ClientIInv /\ StreamIInv)
BY InitIInv, ClientInvariance, StreamInvariance, PTL DEF Spec

(* Every client is held by exactly one owner until it is closed, however     *)
(* many logins, sweeps, logouts, rotations and restarts there were.          *)
THEOREM ClientsAreOwned == Spec => []ClientsOwned
<1>1. ASSUME ClientIInv PROVE ClientsOwned
  <2>1. /\ IsFiniteSet(Process) /\ IsFiniteSet(DOMAIN sessions) /\ IsFiniteSet(probes)
        /\ IsFiniteSet(closing) /\ IsFiniteSet(leaked)
    <3>1. IsFiniteSet(open) /\ Process \subseteq open
      BY <1>1, SessionsAreFinite DEF ClientIInv, OneOwner
    <3> QED
      BY <1>1, <3>1, SessionsAreFinite, FS_Subset DEF ClientIInv, TypeOK
  <2> DEFINE two == Process \union DOMAIN sessions
             three == two \union probes
             four == three \union closing
  <2>2. /\ IsFiniteSet(two)
        /\ Cardinality(two) = Cardinality(Process) + Cardinality(DOMAIN sessions)
    <3>1. Process \intersect DOMAIN sessions = {}
      BY <1>1 DEF ClientIInv, OneOwner
    <3> QED
      BY <2>1, <3>1, DisjointUnion
  <2>3. IsFiniteSet(three) /\ Cardinality(three) = Cardinality(two) + Cardinality(probes)
    <3>1. two \intersect probes = {}
      BY <1>1 DEF ClientIInv, OneOwner
    <3> HIDE DEF two
    <3> QED
      BY <2>1, <2>2, <3>1, DisjointUnion
  <2>4. IsFiniteSet(four) /\ Cardinality(four) = Cardinality(three) + Cardinality(closing)
    <3>1. three \intersect closing = {}
      BY <1>1 DEF ClientIInv, OneOwner
    <3> HIDE DEF three
    <3> QED
      BY <2>1, <2>3, <3>1, DisjointUnion
  <2>5. open = four \union leaked /\ four \intersect leaked = {}
    BY <1>1 DEF ClientIInv, OneOwner
  <2> HIDE DEF four
  <2>6. Cardinality(open) = Cardinality(four) + Cardinality(leaked)
    BY <2>1, <2>4, <2>5, DisjointUnion
  <2> USE DEF four
  <2> QED
    BY <2>2, <2>3, <2>4, <2>5, <2>6 DEF ClientsOwned, Process
<1> QED
  BY <1>1, Invariance, PTL

(* What a setup stored is what it installed: a restart connects alike.       *)
THEOREM RestartIsAlike == Spec => []RestartConnectsAlike
<1>1. ClientIInv => RestartConnectsAlike
  BY DEF ClientIInv
<1> QED
  BY <1>1, Invariance, PTL

(* Pings in between neither lose nor double an event.                        *)
THEOREM FramesAreFaithful == Spec => []FramesFaithful
<1>1. StreamIInv => FramesFaithful
  BY DEF StreamIInv
<1> QED
  BY <1>1, Invariance, PTL

(* A session is thrown out only at a restart, by its logout, expired, or     *)
(* when MaxSessions others that stay were used no less lately.               *)
THEOREM SweepsAreJustified == Spec => SweptWithReason
<1> DEFINE StayedAsLate(s) == {t \in DOMAIN sessions \intersect DOMAIN sessions' :
                           sessions[t] >= sessions[s]}
           Justified(s) == \/ ~up' \/ s \in loggedOut' \/ Expired(s)
                           \/ Cardinality(StayedAsLate(s)) >= MaxSessions
<1>1. ASSUME ClientIInv, [Next]_vars, NEW s \in DOMAIN sessions \ DOMAIN sessions'
      PROVE  Justified(s)
  <2>1. /\ \A cookie : DOMAIN Touched(cookie) = DOMAIN sessions \ Swept(cookie)
        /\ \A cookie : \A t \in Swept(cookie) : Expired(t)
        /\ \A gone : DOMAIN Without(gone) = DOMAIN sessions \ gone
    BY TableLemma
  <2>2. CASE UNCHANGED sessions \/ Stop
    BY <1>1, <2>2 DEF Stop
  <2>3. ASSUME NEW cookie, sessions' = Touched(cookie) PROVE Justified(s)
    BY <1>1, <2>1, <2>3
  <2>4. ASSUME NEW p \in probes, LoginVerified(p) PROVE Justified(s)
    <3>1. PICK dead \in Dead : DOMAIN sessions' = (DOMAIN sessions \ dead) \union {p}
      BY <2>4 DEF LoginVerified
    <3>2. s \in dead
      BY <1>1, <3>1
    <3>3. CASE Expired(s)
      BY <3>3
    <3>4. CASE ~Expired(s)
      <4>1. /\ \A t \in DOMAIN sessions \ dead : sessions[t] >= sessions[s]
            /\ Cardinality(DOMAIN sessions \ dead) = MaxSessions
        BY <1>1, <3>2, <3>4, DeadLemma DEF ClientIInv
      <4>2. (DOMAIN sessions \ dead) \in SUBSET StayedAsLate(s)
        BY <3>1, <4>1
      <4>3. IsFiniteSet(StayedAsLate(s)) /\ Cardinality(StayedAsLate(s)) \in Nat
        BY <1>1, FewerSessions
      <4> HIDE DEF StayedAsLate
      <4>4. MaxSessions <= Cardinality(StayedAsLate(s))
        BY <4>1, <4>2, <4>3, FS_Subset
      <4> QED
        BY <4>3, <4>4, ConnectionsAssumption DEF ConnectionsAssumption
    <3> QED
      BY <3>3, <3>4
  <2>5. ASSUME NEW t \in DOMAIN sessions, Logout(t) PROVE Justified(s)
    BY <1>1, <2>1, <2>5 DEF Logout
  <2>6. ASSUME NEW i \in Slots, NEW t \in 0..MaxMade, Begin(i, t) PROVE Justified(s)
    BY <1>1, <2>1, <2>6 DEF Begin
  <2> HIDE DEF Justified
  <2>7. \/ UNCHANGED sessions \/ Stop
        \/ \E cookie : sessions' = Touched(cookie)
        \/ \E p \in probes : LoginVerified(p)
        \/ \E t \in DOMAIN sessions : Logout(t)
        \/ \E i \in Slots, t \in 0..MaxMade : Begin(i, t)
    BY <1>1 DEF Next, vars, table, SetupCredentials, CommandLine, Start, Tick, LoginBegin,
                LoginRefused, LoginBroken, Visit, CloseRuns, Produce, Wake, Ping, Resume,
                Noticed, Unwind, Leave
  <2> QED
    BY <2>2, <2>3, <2>4, <2>5, <2>6, <2>7
<1>2. ClientIInv' => Cardinality(DOMAIN sessions') <= MaxSessions + 1
  BY DEF ClientIInv, TableIsBounded
<1>3. ClientIInv /\ ClientIInv' /\ [Next]_vars =>
        [/\ Cardinality(DOMAIN sessions') <= MaxSessions + 1
         /\ \A s \in DOMAIN sessions \ DOMAIN sessions' :
              \/ ~up'
              \/ s \in loggedOut'
              \/ Expired(s)
              \/ Cardinality({t \in DOMAIN sessions \intersect DOMAIN sessions' :
                                 sessions[t] >= sessions[s]}) >= MaxSessions]_vars
  BY <1>1, <1>2
<1> QED
  BY <1>3, Invariance, PTL DEF Spec, SweptWithReason
=============================================================================
