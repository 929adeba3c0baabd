------------------------------ MODULE MCReports ------------------------------
(* One of the three reports that only read: the audit of the screen chain,  *)
(* the audit of a scheme, or the licence change log.                         *)
EXTENDS ShareAnalysis, ConfigAudit, EventLog
CONSTANTS t, o, o2, i0, i1, s0, s1, c0, c1, w0, w1, a, b

VARIABLE of

NoAudit ==
  /\ assigned = [p \in Projects |-> i0] /\ mapped = [i \in Itsses |-> {s0}]
  /\ shows = [s \in Schemes |-> Watched] /\ flows = Empty
  /\ phase = "idle" /\ index = EmptyIndex /\ cap \in Caps /\ mode = "no workflows"
  /\ cache = {} /\ verdicts = Empty
  /\ audits = 0 /\ gaps = 0 /\ changes = 0 /\ moved = FALSE
NoConfigAudit ==
  /\ uses = [p \in CA_Projects |-> s0] /\ names = [s \in CA_Schemes |-> {w0}]
  /\ type = "workflow" /\ ca_phase = "idle" /\ listed = {}
  /\ found = [s \in CA_Schemes |-> {}] /\ whole = TRUE /\ verdict = None /\ own = None
  /\ offers = {} /\ ca_gaps = 0 /\ ca_moved = FALSE

NoLog ==
  /\ events = <<>> /\ named = {} /\ label = Empty
  /\ state = "idle" /\ todo = <<>> /\ page = <<>> /\ cursor = {} /\ followed = {}
  /\ scanned = 0 /\ local = 0 /\ got = 0 /\ capDay = 0 /\ dayDone = FALSE
  /\ batch = <<>> /\ seen = {} /\ coverage = Empty /\ shown = <<>>
  /\ stopped = FALSE /\ repeated = FALSE

(* The search for the first group may find the second one and one that       *)
(* grants nothing; both groups may be of one product.                        *)
MCTerms == <<a, b>>
Log ==
  /\ EL_Init /\ label[a] = "A" /\ label[Direct] = "A"
  /\ named \subseteq {<<a, b>>, <<a, OtherGroup>>}

(* Small: the target's own chain is fixed; at most one workflow to begin    *)
(* with, and all show the watched screen.                                    *)
Chain ==
  /\ SA_Init
  /\ assigned[Target] = i0 /\ mapped[i0] = {s0} /\ shows[s0] = Watched
  /\ mapped[i1] \in {{s0}, {s1}}
  /\ DOMAIN flows \subseteq {w0} /\ \A w \in DOMAIN flows : flows[w].shows

MCInit ==
  \/ of = "screens" /\ Chain /\ NoConfigAudit /\ NoLog
  \/ of = "schemes" /\ NoAudit /\ CA_Init /\ uses[CA_Target] = s0 /\ NoLog
  \/ of = "log" /\ NoAudit /\ NoConfigAudit /\ Log

MCNext ==
  \/ of = "screens" /\ SA_Next /\ UNCHANGED <<of, cv, ev>>
  \/ of = "schemes" /\ CA_Next /\ UNCHANGED <<of, SA_vars, ev>>
  \/ of = "log" /\ EL_Next /\ UNCHANGED <<of, SA_vars, cv>>
MCSpec == MCInit /\ [][MCNext]_<<of, SA_vars, cv, ev>>

(* Only the workflow phases see workflows change, and only they have gaps in *)
(* the second audit.                                                         *)
WorkflowPhases == {"mine", "cache", "scan", "cache_put"}
MCStep ==
  /\ (flows' # flows \/ cache' # cache) => phase \in {"idle"} \union WorkflowPhases
  /\ \A w \in DOMAIN flows' : flows'[w].shows
  /\ (gaps' # gaps /\ audits = 2) => phase \in WorkflowPhases
=============================================================================
