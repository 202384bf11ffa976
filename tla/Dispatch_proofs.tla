-------------------------- MODULE Dispatch_proofs --------------------------
(***************************************************************************)
(* Proofs about the dispatch of a request: types, credentials, protocols,  *)
(* order of the candidates, images, and what is reported.                  *)
(***************************************************************************)
EXTENDS Dispatch, SequenceTheorems, TLAPS

-----------------------------------------------------------------------------
(***************************************************************************)
(* Configs and what they resolve to.                                       *)
(***************************************************************************)

\* A loaded config keeps the providers of its file, and its routes lead to them.
LEMMA ConfigType ==
  ASSUME NEW c \in Configs
  PROVE  /\ DOMAIN c.providers \subseteq Providers
         /\ \A p \in DOMAIN c.providers : c.providers[p] \in Provider
         /\ DOMAIN c.routes \subseteq Names
         /\ \A a \in DOMAIN c.routes :
              c.routes[a].provider \in DOMAIN c.providers /\ c.routes[a].model \in Names
<1>1. PICK f \in Files : c \in LoadsOf(f)
  BY DEF Configs
<1>2. PICK t \in RouteTables(f) :
        c = [providers |-> f.providers, vision |-> f.vision, routes |-> t]
  BY <1>1 DEF LoadsOf
<1>3. t \in [DOMAIN f.routes -> [provider : DOMAIN f.providers, model : Names]]
  BY <1>2 DEF RouteTables
<1>4. c.providers = f.providers /\ c.routes = t /\ DOMAIN t = DOMAIN f.routes
  BY <1>2, <1>3
<1>5. /\ DOMAIN f.providers \subseteq Providers
      /\ \A p \in DOMAIN f.providers : f.providers[p] \in Provider
      /\ DOMAIN f.routes \subseteq Names
  BY RoutingAssumption
<1> QED
  BY <1>3, <1>4, <1>5

\* A candidate's client has the address, the key and the protocol of its provider.
Genuine(c) ==
  \E cfg \in Configs :
    /\ Configured(cfg, c.provider, c.url, c.key)
    /\ ProtocolForKey(cfg, c.provider) = c.protocol

LEMMA CandidateOfProvider ==
  ASSUME NEW cfg \in Configs, NEW p \in DOMAIN cfg.providers, NEW name \in Names,
         NEW n \in Nat
  PROVE  /\ CandidateOf(cfg, p, name, n) \in Candidate
         /\ Genuine(CandidateOf(cfg, p, name, n))
<1>1. p \in Providers /\ cfg.providers[p] \in Provider
  BY ConfigType
<1>2. ProtocolForKey(cfg, p) \in Protocols
  BY <1>1 DEF ProtocolForKey, Provider, Protocols
<1>3. cfg.providers[p].url \in Urls /\ cfg.providers[p].key \in Keys
  BY <1>1 DEF Provider
<1> QED
  BY <1>1, <1>2, <1>3 DEF CandidateOf, Candidate, Genuine, Configured

\* Whatever the name resolves to are genuine candidates.
LEMMA ResolvedGenuine ==
  ASSUME NEW cfg \in Configs, NEW name \in Names, NEW c \in ResolveModel(cfg, name)
  PROVE  c \in Candidate /\ Genuine(c)
<1>1. CASE name \in DOMAIN cfg.routes
  <2>1. c = CandidateOf(cfg, cfg.routes[name].provider, cfg.routes[name].model, 0)
    BY <1>1 DEF ResolveModel
  <2>2. /\ cfg.routes[name].provider \in DOMAIN cfg.providers
        /\ cfg.routes[name].model \in Names
    BY <1>1, ConfigType
  <2> QED
    BY <2>1, <2>2, CandidateOfProvider
<1>2. CASE name \notin DOMAIN cfg.routes /\ RefOf[name] # None
  <2>1. /\ c = CandidateOf(cfg, RefOf[name].provider, RefOf[name].model, 0)
        /\ RefOf[name].provider \in DOMAIN cfg.providers
    BY <1>2 DEF ResolveModel
  <2>2. RefOf[name].model \in Names
    BY <1>2, RoutingAssumption
  <2> QED
    BY <2>1, <2>2, CandidateOfProvider
<1>3. CASE name \notin DOMAIN cfg.routes /\ RefOf[name] = None
  <2>1. PICK p \in DOMAIN cfg.providers :
          \E n \in { m \in Priorities(cfg, p) : IsIndexed(cfg, name, p, m) } :
            c = CandidateOf(cfg, p, name, n)
    BY <1>3 DEF ResolveModel
  <2>2. PICK n \in Priorities(cfg, p) : c = CandidateOf(cfg, p, name, n)
    BY <2>1
  <2>3. Priorities(cfg, p) \subseteq Nat
    BY ConfigType DEF Priorities, Provider, Offer
  <2> QED
    BY <2>2, <2>3, CandidateOfProvider
<1> QED
  BY <1>1, <1>2, <1>3

-----------------------------------------------------------------------------
(***************************************************************************)
(* The inductive invariant.                                                *)
(***************************************************************************)

Late == {"filtered", "passing", "calling", "copying", "converting", "connecting",
         "asking", "streaming"}

\* What is known at each step of a request.
Course(r) ==
  /\ pc[r] \notin {"idle", "done"} => ask[r] # None
  /\ pc[r] \in {"calling", "copying", "asking", "streaming"} => call[r] # None
  /\ call[r] # None =>
       ask[r] # None /\ pc[r] \in {"passing", "calling", "copying", "asking", "streaming", "done"}
  /\ pc[r] \in {"passing", "calling", "copying"} => pm[r] # None
  /\ pm[r] # None => pc[r] \in {"passing", "calling", "copying", "done"}
  /\ pc[r] \notin {"copying", "streaming", "done"} => answer[r] = "none"
  /\ pc[r] = "copying" => answer[r] \in {"ok", "upstream error"}
  /\ pc[r] = "streaming" => answer[r] = "ok"
  /\ pc[r] # "done" => reports[r] = <<>> /\ billed[r] = 0

\* Candidates are genuine, and take images once they passed the filter of a request
\* that has one among the items of its input; the call goes to one of them.
Origin(r) ==
  /\ \A c \in cands[r] : Genuine(c)
  /\ call[r] # None => call[r].to \in cands[r]
  /\ (pc[r] \in Late \/ call[r] # None) /\ ask[r] # None /\ ask[r].image = "item" =>
       \A c \in cands[r] : \E cfg \in Configs : SeesImages(cfg, c.provider, c.model)

\* Request r has behaved; the last four conjuncts are the properties.
Sound(r) ==
  /\ Course(r) /\ Origin(r)
  /\ Credentials(r) /\ Endpoint(r) /\ Order(r) /\ Report(r)

DInv == TypeOK /\ \A r \in Requests : Sound(r)

\* What Sound(r) depends on.
Local(r) ==
  <<pc[r], ask[r], cands[r], failed[r], pm[r], call[r], answer[r], reports[r], billed[r]>>

LEMMA InitSound == Init => DInv
<1> SUFFICES ASSUME Init PROVE DInv
  OBVIOUS
<1>1. TypeOK
  BY DEF Init, TypeOK, Steps, Statuses
<1>2. ASSUME NEW r \in Requests PROVE Sound(r)
  BY DEF Init, Sound, Course, Origin, Credentials, Endpoint, Order, Report, Late
<1> QED
  BY <1>1, <1>2 DEF DInv

LEMMA Frame ==
  ASSUME NEW r \in Requests, Sound(r), Local(r)' = Local(r)
  PROVE  Sound(r)'
<1>1. /\ pc'[r] = pc[r] /\ ask'[r] = ask[r] /\ cands'[r] = cands[r] /\ failed'[r] = failed[r]
      /\ pm'[r] = pm[r] /\ call'[r] = call[r] /\ answer'[r] = answer[r]
      /\ reports'[r] = reports[r] /\ billed'[r] = billed[r]
  BY DEF Local
<1>2. Course(r)'
  BY <1>1 DEF Sound, Course
<1>3. Origin(r)'
  BY <1>1 DEF Sound, Origin
<1>4. Credentials(r)' /\ Endpoint(r)'
  BY <1>1 DEF Sound, Credentials, Endpoint
<1>5. Order(r)'
  BY <1>1 DEF Sound, Order, Attemptable
<1>6. Report(r)'
  BY <1>1 DEF Sound, Report
<1> QED
  BY <1>2, <1>3, <1>4, <1>5, <1>6 DEF Sound

-----------------------------------------------------------------------------
(***************************************************************************)
(* Types.                                                                  *)
(***************************************************************************)

LEMMA GotoType ==
  ASSUME TypeOK, NEW r \in Requests, NEW step \in Steps, Goto(r, step)
  PROVE  pc' \in [Requests -> Steps]
  BY DEF Goto, TypeOK

LEMMA RefuseType ==
  ASSUME TypeOK, NEW r \in Requests, NEW status \in Statuses,
         Refuse(r, status) \/ RefuseAndReport(r, status)
  PROVE  /\ pc' \in [Requests -> Steps]
         /\ answer' \in [Requests -> Statuses]
         /\ reports' \in [Requests -> Seq({"success", "error"})]
         /\ billed' \in [Requests -> Nat]
<1>1. Goto(r, "done") /\ "done" \in Steps
  BY DEF Refuse, RefuseAndReport, Steps
<1>2. answer' = [answer EXCEPT ![r] = status] /\ (billed' = billed)
  BY DEF Refuse, RefuseAndReport
<1>3. CASE reports' = reports
  BY <1>1, <1>2, <1>3, GotoType DEF TypeOK
<1>4. CASE reports' = [reports EXCEPT ![r] = Append(@, "error")]
  <2>1. Append(reports[r], "error") \in Seq({"success", "error"})
    BY DEF TypeOK
  <2> QED
    BY <1>1, <1>2, <1>4, <2>1, GotoType DEF TypeOK
<1> QED
  BY <1>3, <1>4 DEF Refuse, RefuseAndReport

\* The credentials of a config are typed.
LEMMA CredentialTypes ==
  ASSUME NEW c \in Configs, NEW p
  PROVE  /\ ProviderBaseURL(c, p) \in Urls \cup {None}
         /\ ProviderAPIKey(c, p) \in Keys \cup {None}
         /\ ProviderBaseURL(c, p) # None =>
              p \in DOMAIN c.providers /\ ProviderAPIKey(c, p) \in Keys
  BY ConfigType DEF ProviderBaseURL, ProviderAPIKey, Provider

\* A client of the adapter path has the credentials and the protocol of its provider.
LEMMA ClientGenuine ==
  ASSUME TypeOK, NEW c \in Candidate, Genuine(c), NEW client \in ClientFor(c)
  PROVE  /\ client.url \in Urls /\ client.key \in Keys
         /\ \E cfg \in Configs :
              /\ Configured(cfg, c.provider, client.url, client.key)
              /\ ProtocolForKey(cfg, c.provider) = c.protocol
<1>1. CASE c.protocol = "anthropic"
  <2>1. client.url = c.url /\ client.key = c.key
    BY <1>1 DEF ClientFor
  <2> QED
    BY <2>1 DEF Genuine, Candidate
<1>2. CASE c.protocol # "anthropic"
  <2>1. client \in ActiveClient(c.provider, c.protocol)
    BY <1>2 DEF ClientFor
  <2>2. PICK cfg \in {live, boot} :
          /\ c.provider \in DOMAIN cfg.providers
          /\ cfg.providers[c.provider].protocol = c.protocol
          /\ client = [url |-> cfg.providers[c.provider].url,
                       key |-> cfg.providers[c.provider].key]
    BY <2>1 DEF ActiveClient
  <2>3. cfg \in Configs
    BY DEF TypeOK
  <2>4. cfg.providers[c.provider] \in Provider
    BY <2>2, <2>3, ConfigType
  <2>5. c.protocol # None
    BY RoutingAssumption DEF Candidate
  <2> QED
    BY <2>2, <2>3, <2>4, <2>5 DEF Configured, ProtocolForKey, Provider
<1> QED
  BY <1>1, <1>2

\* Every step keeps the types.
LEMMA TypeStep ==
  ASSUME DInv, [Next]_vars
  PROVE  TypeOK'
<1> USE DEF server, route, outcome
<1>0. TypeOK /\ \A r \in Requests : Course(r) /\ \A c \in cands[r] : Genuine(c)
  BY DEF DInv, Sound, Origin
<1>a. ASSUME NEW r \in Requests, NEW status \in Statuses,
             Refuse(r, status) \/ RefuseAndReport(r, status),
             UNCHANGED <<server, route, gone>>
      PROVE  TypeOK'
  <2>1. /\ pc' \in [Requests -> Steps]
        /\ answer' \in [Requests -> Statuses]
        /\ reports' \in [Requests -> Seq({"success", "error"})]
        /\ billed' \in [Requests -> Nat]
    BY <1>0, <1>a, RefuseType
  <2> QED
    BY <1>0, <1>a, <2>1 DEF TypeOK
<1>b. ASSUME NEW r \in Requests, NEW step \in Steps, Goto(r, step),
             UNCHANGED <<server, route, outcome, gone>>
      PROVE  TypeOK'
  BY <1>0, <1>b, GotoType DEF TypeOK
<1>1. ASSUME NEW r \in Requests, Receive(r) PROVE TypeOK'
  <2>1. PICK a \in Asks : ask' = [ask EXCEPT ![r] = a]
    BY <1>1 DEF Receive
  <2> QED
    BY <1>0, <1>1, <2>1, GotoType DEF Receive, TypeOK, Steps
<1>2. ASSUME NEW r \in Requests,
             Reject(r) \/ UnknownModel(r) \/ NoneFits(r) \/ NoAdapter(r) \/ NoClient(r)
               \/ ConversionFails(r) \/ UpstreamFails(r)
      PROVE  TypeOK'
  <2>1. {"bad request", "not found", "bad gateway", "internal error"} \subseteq Statuses
    BY DEF Statuses
  <2> QED
    BY <1>2, <1>a, <2>1
       DEF Reject, UnknownModel, NoneFits, NoAdapter, NoClient, ConversionFails, UpstreamFails
<1>3. ASSUME NEW r \in Requests, Resolve(r) PROVE TypeOK'
  <2>0. ask[r] # None
    BY <1>0, <1>3 DEF Resolve, Course
  <2>a. ask[r] \in Asks
    BY <1>0, <2>0 DEF TypeOK
  <2>1. ask[r].model \in Names
    BY <2>a, DispatchAssumption
  <2>2. ResolveModel(live, ask[r].model) \subseteq Candidate
    BY <1>0, <2>1, ResolvedGenuine DEF TypeOK
  <2> QED
    BY <1>0, <1>3, <2>2, GotoType DEF Resolve, TypeOK, Steps
<1>4. ASSUME NEW r \in Requests, Filter(r) PROVE TypeOK'
  <2>1. Fit(r) \subseteq Candidate
    BY <1>0 DEF Fit, TypeOK
  <2> QED
    BY <1>0, <1>4, <2>1, GotoType DEF Filter, TypeOK, Steps
<1>5. ASSUME NEW r \in Requests, PassThrough(r) PROVE TypeOK'
  BY <1>0, <1>5, GotoType DEF PassThrough, TypeOK, Steps
<1>c. ASSUME NEW r \in Requests, NEW c \in Candidate, Advance(r, c) \/ GiveUp(r, c),
             UNCHANGED <<server, ask, cands, pm, call, gone>>
      PROVE  TypeOK'
  <2>0. failed' = [failed EXCEPT ![r] = @ \cup {c}]
    BY <1>c DEF Advance, GiveUp
  <2>1. failed' \in [Requests -> SUBSET Candidate]
    <3>1. failed[r] \cup {c} \in SUBSET Candidate
      BY <1>0 DEF TypeOK
    <3> QED
      BY <1>0, <2>0, <3>1 DEF TypeOK
  <2>2. CASE Advance(r, c)
    BY <1>0, <1>c, <2>1, <2>2, GotoType DEF Advance, TypeOK, Steps
  <2>3. CASE GiveUp(r, c)
    <3>1. RefuseAndReport(r, "bad gateway") /\ "bad gateway" \in Statuses
      BY <2>3 DEF GiveUp, Statuses
    <3>2. /\ pc' \in [Requests -> Steps]
          /\ answer' \in [Requests -> Statuses]
          /\ reports' \in [Requests -> Seq({"success", "error"})]
          /\ billed' \in [Requests -> Nat]
      BY <1>0, <3>1, RefuseType
    <3> QED
      BY <1>0, <1>c, <2>1, <3>2 DEF TypeOK
  <2> QED
    BY <1>c, <2>2, <2>3
<1>6. ASSUME NEW r \in Requests, Skip(r) PROVE TypeOK'
  BY <1>0, <1>6, <1>c DEF Skip, Untried, Attemptable, TypeOK
<1>7. ASSUME NEW r \in Requests, Attempt(r) PROVE TypeOK'
  <2>1. PICK c \in Untried(r) :
          /\ ProviderBaseURL(pm[r], c.provider) # None
          /\ call' = [call EXCEPT ![r] =
               [to |-> c, url |-> ProviderBaseURL(pm[r], c.provider), key |-> KeyFor(r, c)]]
    BY <1>7 DEF Attempt
  <2>2. pm[r] \in Configs /\ c \in Candidate
    BY <1>0, <1>7 DEF Attempt, Course, Untried, Attemptable, TypeOK
  <2>3. ProviderBaseURL(pm[r], c.provider) \in Urls /\ KeyFor(r, c) \in Keys
    BY <2>1, <2>2, CredentialTypes DEF KeyFor
  <2>4. call'[r] \in Call /\ call' \in [Requests -> Call \cup {None}]
    BY <1>0, <2>1, <2>2, <2>3 DEF Call, TypeOK
  <2> QED
    BY <1>0, <1>7, <2>4, GotoType DEF Attempt, TypeOK, Steps
<1>8. ASSUME NEW r \in Requests, TransportFails(r) PROVE TypeOK'
  <2>1. call[r].to \in Candidate
    BY <1>0, <1>8 DEF TransportFails, Course, TypeOK, Call
  <2> QED
    BY <1>8, <1>c, <2>1 DEF TransportFails
<1>9. ASSUME NEW r \in Requests, UpstreamResponds(r) \/ StartStream(r) PROVE TypeOK'
  <2>1. PICK status \in {"ok", "upstream error"} : answer' = [answer EXCEPT ![r] = status]
    BY <1>9 DEF UpstreamResponds, StartStream
  <2>2. status \in Statuses /\ "copying" \in Steps /\ "streaming" \in Steps
    BY DEF Statuses, Steps
  <2> QED
    BY <1>0, <1>9, <2>1, <2>2, GotoType DEF UpstreamResponds, StartStream, TypeOK
<1>10. ASSUME NEW r \in Requests, CopyEnds(r) \/ CopyFails(r) \/ Respond(r) \/ StreamEnds(r)
       PROVE  TypeOK'
  <2>1. PICK status \in {"success", "error"} :
          reports' = [reports EXCEPT ![r] = Append(@, status)]
    BY <1>10 DEF CopyEnds, CopyFails, Respond, StreamEnds
  <2>2. Append(reports[r], status) \in Seq({"success", "error"})
    BY <1>0 DEF TypeOK
  <2>3. PICK n \in Nat : billed' = [billed EXCEPT ![r] = @ + n] \/ billed' = billed
    BY <1>10 DEF CopyEnds, CopyFails, Respond, StreamEnds
  <2>4. answer' \in [Requests -> Statuses] /\ "done" \in Steps
    BY <1>0, <1>10 DEF CopyEnds, CopyFails, Respond, StreamEnds, TypeOK, Statuses, Steps
  <2>5. reports' \in [Requests -> Seq({"success", "error"})]
    BY <1>0, <2>1, <2>2 DEF TypeOK
  <2>7. billed' \in [Requests -> Nat]
    <3>1. billed[r] + n \in Nat
      BY <1>0 DEF TypeOK
    <3> QED
      BY <1>0, <2>3, <3>1 DEF TypeOK
  <2>6. Goto(r, "done") /\ UNCHANGED <<server, route, gone>>
    BY <1>10 DEF CopyEnds, CopyFails, Respond, StreamEnds
  <2> QED
    BY <1>0, <2>4, <2>5, <2>6, <2>7, GotoType DEF TypeOK
<1>11. ASSUME NEW r \in Requests, ToAdapter(r) \/ Convert(r) PROVE TypeOK'
  BY <1>11, <1>b DEF ToAdapter, Convert, Steps
<1>12. ASSUME NEW r \in Requests, Connect(r) PROVE TypeOK'
  <2>1. PICK c \in cands[r] : \E client \in ClientFor(c) :
          call' = [call EXCEPT ![r] = [to |-> c, url |-> client.url, key |-> client.key]]
    BY <1>12 DEF Connect
  <2>a. PICK client \in ClientFor(c) :
          call' = [call EXCEPT ![r] = [to |-> c, url |-> client.url, key |-> client.key]]
    BY <2>1
  <2>2. c \in Candidate /\ client.url \in Urls /\ client.key \in Keys
    BY <1>0, <2>1, <2>a, ClientGenuine DEF TypeOK
  <2>3. call' \in [Requests -> Call \cup {None}]
    BY <1>0, <2>a, <2>2 DEF Call, TypeOK
  <2> QED
    BY <1>0, <1>12, <2>3, GotoType DEF Connect, TypeOK, Steps
<1>13. ASSUME NEW r \in Requests, Disconnect(r) PROVE TypeOK'
  BY <1>0, <1>13 DEF Disconnect, TypeOK
<1>14. CASE Reload \/ UNCHANGED vars
  BY <1>0, <1>14 DEF Reload, vars, TypeOK
<1> QED
  BY <1>1, <1>2, <1>3, <1>4, <1>5, <1>6, <1>7, <1>8, <1>9, <1>10, <1>11, <1>12, <1>13, <1>14
     DEF Next, Handle, Finish

-----------------------------------------------------------------------------
(***************************************************************************)
(* Every step keeps the invariant of every request.                        *)
(***************************************************************************)

\* A step of request r.
Step(r) ==
  \/ Receive(r) \/ Reject(r) \/ Handle(r) \/ Finish(r)
  \/ UpstreamResponds(r) \/ CopyEnds(r)
  \/ ConversionFails(r) \/ Respond(r) \/ StartStream(r)
  \/ Disconnect(r)

\* It changes nothing of another request.
LEMMA Others ==
  ASSUME TypeOK, NEW r \in Requests, NEW s \in Requests, s # r, Step(r)
  PROVE  Local(s)' = Local(s)
<1> USE DEF TypeOK, Local, server, route, outcome, Goto, Refuse, RefuseAndReport
<1>1. CASE Receive(r) \/ Reject(r) \/ Resolve(r) \/ UnknownModel(r) \/ Filter(r) \/ NoneFits(r)
  BY <1>1 DEF Receive, Reject, Resolve, UnknownModel, Filter, NoneFits
<1>2. CASE PassThrough(r) \/ Skip(r) \/ Attempt(r) \/ TransportFails(r)
  BY <1>2 DEF PassThrough, Skip, Attempt, TransportFails, Advance, GiveUp
<1>3. CASE UpstreamResponds(r) \/ CopyEnds(r) \/ CopyFails(r)
  BY <1>3 DEF UpstreamResponds, CopyEnds, CopyFails
<1>4. CASE ToAdapter(r) \/ NoAdapter(r) \/ Convert(r) \/ Connect(r) \/ NoClient(r)
  BY <1>4 DEF ToAdapter, NoAdapter, Convert, Connect, NoClient
<1>5. CASE ConversionFails(r) \/ UpstreamFails(r) \/ Respond(r) \/ StartStream(r)
             \/ StreamEnds(r) \/ Disconnect(r)
  BY <1>5 DEF ConversionFails, UpstreamFails, Respond, StartStream, StreamEnds, Disconnect
<1> QED
  BY <1>1, <1>2, <1>3, <1>4, <1>5 DEF Step, Handle, Finish

LEMMA ReportFacts ==
  /\ Len(<<>>) = 0 /\ Len(<<"error">>) = 1 /\ Len(<<"success">>) = 1
  /\ <<"error">> # <<"success">> /\ <<>> # <<"success">>
  /\ Append(<<>>, "error") = <<"error">>
<1>1. Len(<<>>) = 0 /\ Len(<<"error">>) = 1 /\ Len(<<"success">>) = 1
  OBVIOUS
<1>2. <<"error">>[1] # <<"success">>[1]
  OBVIOUS
<1> QED
  BY <1>1, <1>2

LEMMA NotSuccess ==
  ASSUME NEW statuses \in {<<>>, <<"error">>}
  PROVE  Len(statuses) <= 1 /\ statuses # <<"success">>
<1>1. CASE statuses = <<>>
  BY <1>1, ReportFacts
<1>2. CASE statuses = <<"error">>
  BY <1>2, ReportFacts
<1> QED
  BY <1>1, <1>2

\* A request that is refused on the adapter path or before is done with it.
LEMMA RefusedSound ==
  ASSUME TypeOK, NEW r \in Requests, Sound(r), NEW status,
         pc[r] \notin {"passing", "calling", "copying", "streaming", "done"},
         status # "ok",
         Refuse(r, status) \/ RefuseAndReport(r, status), UNCHANGED <<server, route, gone>>
  PROVE  Sound(r)'
<1> USE DEF TypeOK, server, route
<1>1. pm[r] = None /\ reports[r] = <<>> /\ billed[r] = 0
  BY DEF Sound, Course
<1>2. pc'[r] = "done" /\ answer'[r] = status /\ billed'[r] = 0
  BY <1>1 DEF Refuse, RefuseAndReport, Goto
<1>3. reports'[r] \in {<<>>, <<"error">>}
  BY <1>1 DEF Refuse, RefuseAndReport
<1>4. UNCHANGED <<ask[r], cands[r], failed[r], pm[r], call[r]>>
  OBVIOUS
<1>5. Course(r)'
  BY <1>1, <1>2, <1>3, <1>4 DEF Sound, Course
<1>6. Origin(r)' /\ Credentials(r)' /\ Endpoint(r)'
  BY <1>1, <1>2, <1>4 DEF Sound, Origin, Credentials, Endpoint, Late
<1>7. Order(r)'
  BY <1>1, <1>4 DEF Order
<1>8. Report(r)'
  <2>1. Len(reports'[r]) <= 1 /\ reports'[r] # <<"success">>
    BY <1>3, NotSuccess
  <2> QED
    BY <1>1, <1>2, <1>4, <2>1 DEF Report
<1> QED
  BY <1>5, <1>6, <1>7, <1>8 DEF Sound

\* Before the first call, an action that moves the request on to a step, with the
\* candidates of before or with others that are as good.
LEMMA MovedSound ==
  ASSUME TypeOK, NEW r \in Requests, Sound(r),
         NEW step \in {"received", "resolved", "filtered", "passing", "converting", "connecting"},
         call[r] = None, ask'[r] # None, pm[r] = None,
         pc[r] \notin {"copying", "streaming", "done"},
         pc'[r] = step, step = "passing" <=> pm'[r] # None,
         \A c \in cands'[r] : Genuine(c),
         step \notin {"received", "resolved"} /\ ask'[r].image = "item" =>
           \A c \in cands'[r] : \E cfg \in Configs : SeesImages(cfg, c.provider, c.model),
         UNCHANGED <<call[r], outcome>>
  PROVE  Sound(r)'
<1> USE DEF outcome
<1>1. answer'[r] = "none" /\ reports'[r] = <<>> /\ billed'[r] = 0 /\ call'[r] = None
  BY DEF Sound, Course
<1>2. Course(r)'
  BY <1>1 DEF Course
<1>3. Origin(r)'
  BY <1>1 DEF Origin, Late
<1>4. Credentials(r)' /\ Endpoint(r)' /\ Order(r)'
  BY <1>1 DEF Credentials, Endpoint, Order
<1>5. Len(<<>>) = 0 /\ <<>> # <<"success">>
  OBVIOUS
<1>6. Report(r)'
  BY <1>1, <1>5 DEF Report
<1> QED
  BY <1>2, <1>3, <1>4, <1>6 DEF Sound

LEMMA EarlySound ==
  ASSUME TypeOK, NEW r \in Requests, Sound(r),
         Receive(r) \/ Resolve(r) \/ Filter(r) \/ PassThrough(r) \/ ToAdapter(r) \/ Convert(r)
  PROVE  Sound(r)'
<1> USE DEF TypeOK, server, route, outcome, Goto
<1>0. /\ pc[r] \in {"idle", "received", "resolved", "filtered", "converting"}
      /\ call[r] = None /\ pm[r] = None
  BY DEF Sound, Course, Receive, Resolve, Filter, PassThrough, ToAdapter, Convert
<1>1. CASE Receive(r)
  <2>1. PICK a \in Asks : ask' = [ask EXCEPT ![r] = a]
    BY <1>1 DEF Receive
  <2>2. ask'[r] # None /\ pc'[r] = "received"
    BY <1>1, <2>1, DispatchAssumption DEF Receive
  <2> QED
    BY <1>0, <1>1, <2>2, MovedSound DEF Receive, Sound, Origin
<1>2. CASE Resolve(r)
  <2>1. ask[r] # None
    BY <1>2 DEF Resolve, Sound, Course
  <2>2. ask[r] \in Asks
    BY <2>1
  <2>3. ask[r].model \in Names
    BY <2>2, DispatchAssumption
  <2>4. \A c \in ResolveModel(live, ask[r].model) : Genuine(c)
    BY <2>3, ResolvedGenuine
  <2>5. pc'[r] = "resolved" /\ \A c \in cands'[r] : Genuine(c)
    BY <1>2, <2>4 DEF Resolve
  <2> QED
    BY <1>0, <1>2, <2>1, <2>5, MovedSound DEF Resolve
<1>3. CASE Filter(r)
  <2>1. ask[r] # None /\ \A c \in cands[r] : Genuine(c)
    BY <1>3 DEF Filter, Sound, Course, Origin
  <2>2. pc'[r] = "filtered" /\ cands'[r] = Fit(r) /\ ask'[r] = ask[r]
    BY <1>3 DEF Filter
  <2>3. \A c \in Fit(r) :
          Genuine(c) /\ (ask[r].image = "item" => SeesImages(live, c.provider, c.model))
    BY <2>1 DEF Fit, RequestHasImage
  <2>4. ask'[r].image = "item" =>
          \A c \in cands'[r] : \E cfg \in Configs : SeesImages(cfg, c.provider, c.model)
    BY <2>2, <2>3
  <2> QED
    BY <1>0, <1>3, <2>1, <2>2, <2>3, <2>4, MovedSound DEF Filter
<1>4. CASE PassThrough(r) \/ ToAdapter(r) \/ Convert(r)
  <2>1. PICK step \in {"passing", "converting", "connecting"} : pc'[r] = step
    BY <1>4 DEF PassThrough, ToAdapter, Convert
  <2>2. step = "passing" <=> pm'[r] # None
    BY <1>4, <1>0, <2>1, DispatchAssumption DEF PassThrough, ToAdapter, Convert
  <2>3. ask[r] # None
    BY <1>4 DEF PassThrough, ToAdapter, Convert, Sound, Course
  <2>4. /\ \A c \in cands[r] : Genuine(c)
        /\ ask[r].image = "item" =>
             \A c \in cands[r] : \E cfg \in Configs : SeesImages(cfg, c.provider, c.model)
    BY <1>4, <2>3 DEF PassThrough, ToAdapter, Convert, Sound, Origin, Late
  <2>5. UNCHANGED <<ask[r], cands[r], call[r], outcome>>
    BY <1>4 DEF PassThrough, ToAdapter, Convert
  <2> QED
    BY <1>0, <2>1, <2>2, <2>3, <2>4, <2>5, MovedSound
<1> QED
  BY <1>1, <1>2, <1>3, <1>4

\* The first of the untried candidates has every other attemptable one that comes
\* before it among the failed.
LEMMA FirstUntried ==
  ASSUME TypeOK, NEW r \in Requests, NEW c, IsFirst(c, Untried(r)),
         NEW d \in Attemptable(r) \ {c}, Better(d, c)
  PROVE  d \in failed[r]
<1>1. c \in Candidate /\ d \in Candidate
  BY DEF TypeOK, IsFirst, Untried, Attemptable
<1>2. /\ c.priority \in Nat /\ d.priority \in Nat
      /\ c.provider \in Nat /\ d.provider \in Nat
  BY <1>1, RoutingAssumption DEF Candidate
<1>3. ~Better(c, d)
  BY <1>2 DEF Better
<1> QED
  BY <1>3 DEF IsFirst, Untried

\* A call goes out, to a provider of the passed-through request or to the adapter's.
LEMMA CallSound ==
  ASSUME TypeOK, NEW r \in Requests, Sound(r), Attempt(r) \/ Connect(r)
  PROVE  Sound(r)'
<1> USE DEF TypeOK, server, outcome, Goto
<1>0. ask[r] # None /\ answer[r] = "none" /\ reports[r] = <<>> /\ billed[r] = 0
  BY DEF Sound, Course, Attempt, Connect
<1>1. UNCHANGED <<ask[r], cands[r], failed[r], pm[r], answer[r], reports[r], billed[r]>>
  BY DEF Attempt, Connect
<1>2. Report(r)'
  BY <1>0, <1>1 DEF Report, Attempt, Connect, Sound
<1>3. /\ \A c \in cands[r] : Genuine(c)
      /\ ask[r].image = "item" =>
           \A c \in cands[r] : \E cfg \in Configs : SeesImages(cfg, c.provider, c.model)
  BY <1>0 DEF Attempt, Connect, Sound, Origin, Late
<1>4. CASE Attempt(r)
  <2>1. PICK c \in Untried(r) :
          /\ IsFirst(c, Untried(r))
          /\ ProviderBaseURL(pm[r], c.provider) # None
          /\ call' = [call EXCEPT ![r] =
               [to |-> c, url |-> ProviderBaseURL(pm[r], c.provider), key |-> KeyFor(r, c)]]
    BY <1>4 DEF Attempt
  <2>2. /\ call'[r] = [to |-> c, url |-> ProviderBaseURL(pm[r], c.provider), key |-> KeyFor(r, c)]
        /\ pc'[r] = "calling"
    BY <1>4, <2>1 DEF Attempt
  <2>3. pm[r] \in Configs /\ pm[r] # None /\ c \in cands[r] /\ c \in Candidate
    BY <1>4 DEF Attempt, Sound, Course, Untried, Attemptable
  <2>4. /\ ProviderBaseURL(pm[r], c.provider) \in Urls
        /\ KeyFor(r, c) \in Keys
        /\ c.provider \in DOMAIN pm[r].providers
    BY <2>1, <2>3, CredentialTypes DEF KeyFor
  <2>5. call'[r] # None
    BY <2>2, <2>3, <2>4, DispatchAssumption
  <2>6. Course(r)'
    BY <1>0, <1>1, <2>2, <2>3, <2>5 DEF Course
  <2>7. Origin(r)'
    BY <1>1, <1>3, <2>2, <2>3 DEF Origin
  <2>8. Credentials(r)'
    BY <2>2, <2>3, <2>4
       DEF Credentials, Configured, KeyFor, ProviderBaseURL, ProviderAPIKey
  <2>9. Endpoint(r)'
    BY <1>1, <2>3 DEF Endpoint
  <2>10. Order(r)'
    <3>1. \A d \in Attemptable(r) \ {c} : Better(d, c) => d \in failed[r]
      BY <2>1, FirstUntried
    <3>2. c \in Attemptable(r) \ failed[r] /\ Attemptable(r)' = Attemptable(r)
      BY <1>1 DEF Untried, Attemptable
    <3> QED
      BY <1>0, <1>1, <2>2, <3>1, <3>2 DEF Order, Better
  <2> QED
    BY <1>2, <2>6, <2>7, <2>8, <2>9, <2>10 DEF Sound
<1>5. CASE Connect(r)
  <2>1. PICK c \in cands[r] : \E client \in ClientFor(c) :
          call' = [call EXCEPT ![r] = [to |-> c, url |-> client.url, key |-> client.key]]
    BY <1>5 DEF Connect
  <2>2. PICK client \in ClientFor(c) :
          call' = [call EXCEPT ![r] = [to |-> c, url |-> client.url, key |-> client.key]]
    BY <2>1
  <2>3. /\ call'[r] = [to |-> c, url |-> client.url, key |-> client.key]
        /\ pc'[r] = "asking" /\ pm[r] = None
    BY <1>5, <2>2 DEF Connect, Sound, Course
  <2>4. c \in Candidate /\ Genuine(c)
    BY <1>3
  <2>5. /\ client.url \in Urls /\ client.key \in Keys
        /\ \E cfg \in Configs :
             /\ Configured(cfg, c.provider, client.url, client.key)
             /\ ProtocolForKey(cfg, c.provider) = c.protocol
    BY <2>4, ClientGenuine
  <2>6. call'[r] # None
    BY <2>3, <2>4, <2>5, DispatchAssumption
  <2>7. Course(r)'
    BY <1>0, <1>1, <2>3, <2>6 DEF Course
  <2>8. Origin(r)'
    BY <1>1, <1>3, <2>3 DEF Origin
  <2>9. Credentials(r)' /\ Endpoint(r)'
    BY <2>3, <2>5 DEF Credentials, Endpoint, Configured, ProtocolForKey
  <2>10. Order(r)'
    BY <1>1, <2>3 DEF Order
  <2> QED
    BY <1>2, <2>7, <2>8, <2>9, <2>10 DEF Sound
<1> QED
  BY <1>4, <1>5

\* A candidate is given up, and another is next or the request ends.
LEMMA FallbackSound ==
  ASSUME TypeOK, NEW r \in Requests, Sound(r), NEW c \in Untried(r),
         pc[r] \in {"passing", "calling"},
         Advance(r, c) \/ GiveUp(r, c), UNCHANGED <<server, ask, cands, pm, call, gone>>
  PROVE  Sound(r)'
<1> USE DEF TypeOK, outcome, Goto, Advance, GiveUp, RefuseAndReport
<1>0. /\ ask[r] # None /\ pm[r] # None
      /\ answer[r] = "none" /\ reports[r] = <<>> /\ billed[r] = 0
  BY DEF Sound, Course
<1>1. UNCHANGED <<ask[r], cands[r], pm[r], call[r], billed[r]>>
  OBVIOUS
<1>2. failed'[r] = failed[r] \cup {c} /\ Attemptable(r)' = Attemptable(r)
  BY DEF Attemptable
<1>3. \/ pc'[r] = "passing" /\ answer'[r] = "none" /\ reports'[r] = <<>>
      \/ /\ pc'[r] = "done" /\ answer'[r] = "bad gateway" /\ reports'[r] = <<"error">>
         /\ Untried(r) = {c}
  <2>1. CASE Advance(r, c)
    BY <1>0, <2>1
  <2>2. CASE GiveUp(r, c)
    <3>1. reports'[r] = Append(reports[r], "error") /\ answer'[r] = "bad gateway"
      BY <2>2
    <3>2. pc'[r] = "done" /\ Untried(r) = {c}
      BY <2>2
    <3> QED
      BY <1>0, <3>1, <3>2, ReportFacts
  <2> QED
    BY <2>1, <2>2
<1>4. Course(r)'
  BY <1>0, <1>1, <1>3 DEF Sound, Course
<1>5. Origin(r)'
  BY <1>1, <1>3 DEF Sound, Origin, Late
<1>6. Credentials(r)' /\ Endpoint(r)'
  BY <1>1 DEF Sound, Credentials, Endpoint
<1>7. Order(r)'
  BY <1>1, <1>2, <1>3 DEF Order, Untried
<1>8. Report(r)'
  <2>1. reports'[r] \in {<<>>, <<"error">>}
    BY <1>3
  <2>2. Len(reports'[r]) <= 1 /\ reports'[r] # <<"success">>
    BY <2>1, NotSuccess
  <2>3. pc'[r] = "done" => Len(reports'[r]) = 1
    BY <1>3, ReportFacts
  <2>4. billed'[r] = 0
    BY <1>0, <1>1
  <2> HIDE DEF TypeOK, outcome, Goto, Advance, GiveUp, RefuseAndReport
  <2> QED
    BY <2>2, <2>3, <2>4 DEF Report
<1> QED
  BY <1>4, <1>5, <1>6, <1>7, <1>8 DEF Sound

\* An answer begins.
LEMMA AnswerSound ==
  ASSUME TypeOK, NEW r \in Requests, Sound(r), UpstreamResponds(r) \/ StartStream(r)
  PROVE  Sound(r)'
<1> USE DEF TypeOK, server, route, Goto
<1>0. /\ ask[r] # None /\ call[r] # None /\ reports[r] = <<>> /\ billed[r] = 0
      /\ UNCHANGED <<ask[r], cands[r], failed[r], pm[r], call[r], reports[r], billed[r]>>
  BY DEF Sound, Course, UpstreamResponds, StartStream
<1>1. \/ /\ pc[r] = "calling" /\ pc'[r] = "copying" /\ pm[r] # None
         /\ answer'[r] \in {"ok", "upstream error"}
      \/ /\ pc[r] = "asking" /\ pc'[r] = "streaming" /\ pm[r] = None
         /\ answer'[r] = "ok"
  BY DEF Sound, Course, UpstreamResponds, StartStream
<1>2. Course(r)'
  BY <1>0, <1>1 DEF Sound, Course
<1>3. Origin(r)' /\ Credentials(r)' /\ Endpoint(r)'
  BY <1>0, <1>1 DEF Sound, Origin, Credentials, Endpoint, Late
<1>4. Order(r)'
  BY <1>0, <1>1 DEF Sound, Order, Attemptable
<1>5. Report(r)'
  <2>1. reports'[r] = <<>> /\ billed'[r] = 0 /\ pc'[r] # "done"
    BY <1>0, <1>1
  <2>2. Len(reports'[r]) = 0 /\ reports'[r] # <<"success">>
    BY <2>1, ReportFacts
  <2> QED
    BY <2>1, <2>2 DEF Report
<1> QED
  BY <1>2, <1>3, <1>4, <1>5 DEF Sound

\* A request that was answered ends with one report.
LEMMA EndSound ==
  ASSUME TypeOK, NEW r \in Requests, Sound(r),
         CopyEnds(r) \/ CopyFails(r) \/ Respond(r) \/ StreamEnds(r)
  PROVE  Sound(r)'
<1> USE DEF TypeOK, server, route, Goto
<1>0. /\ ask[r] # None /\ call[r] # None /\ reports[r] = <<>> /\ billed[r] = 0
      /\ pc'[r] = "done"
      /\ UNCHANGED <<ask[r], cands[r], failed[r], pm[r], call[r]>>
  BY DEF Sound, Course, CopyEnds, CopyFails, Respond, StreamEnds
<1>1. \/ /\ reports'[r] = <<"success">> /\ answer'[r] = "ok"
         /\ billed'[r] \in {0, 1}
      \/ reports'[r] = <<"error">> /\ billed'[r] = 0 /\ answer'[r] = answer[r]
  <2>1. CASE CopyEnds(r)
    BY <1>0, <2>1 DEF CopyEnds
  <2>2. CASE CopyFails(r)
    BY <1>0, <2>2 DEF CopyFails
  <2>3. CASE Respond(r)
    BY <1>0, <2>3 DEF Respond
  <2>4. CASE StreamEnds(r)
    BY <1>0, <2>4 DEF Sound, Course, StreamEnds
  <2> QED
    BY <2>1, <2>2, <2>3, <2>4
<1>2. \/ pc[r] = "copying" /\ pm[r] # None /\ answer'[r] = answer[r]
      \/ pc[r] \in {"asking", "streaming"} /\ pm[r] = None
  BY DEF Sound, Course, CopyEnds, CopyFails, Respond, StreamEnds
<1>3. Course(r)'
  BY <1>0, <1>2 DEF Sound, Course
<1>4. Origin(r)' /\ Credentials(r)' /\ Endpoint(r)'
  BY <1>0, <1>2 DEF Sound, Origin, Credentials, Endpoint, Late
<1>5. Order(r)'
  BY <1>0, <1>2 DEF Sound, Order, Attemptable, Course
<1>6. Report(r)'
  <2>1. CASE /\ reports'[r] = <<"success">> /\ answer'[r] = "ok"
             /\ billed'[r] \in {0, 1}
    <3>1. Len(reports'[r]) = 1
      BY <2>1, ReportFacts
    <3> QED
      BY <2>1, <3>1 DEF Report
  <2>2. CASE reports'[r] = <<"error">> /\ billed'[r] = 0
    <3>1. Len(reports'[r]) = 1 /\ reports'[r] # <<"success">>
      BY <2>2, ReportFacts
    <3> QED
      BY <2>2, <3>1 DEF Report
  <2> QED
    BY <1>1, <2>1, <2>2
<1> QED
  BY <1>3, <1>4, <1>5, <1>6 DEF Sound

-----------------------------------------------------------------------------
(***************************************************************************)
(* The theorems.                                                           *)
(***************************************************************************)

LEMMA StepSound ==
  ASSUME TypeOK, NEW r \in Requests, Sound(r), Step(r)
  PROVE  Sound(r)'
<1>1. CASE Receive(r) \/ Resolve(r) \/ Filter(r) \/ PassThrough(r) \/ ToAdapter(r) \/ Convert(r)
  BY <1>1, EarlySound
<1>2. CASE Reject(r) \/ UnknownModel(r) \/ NoneFits(r) \/ NoAdapter(r) \/ NoClient(r)
             \/ ConversionFails(r) \/ UpstreamFails(r)
  BY <1>2, RefusedSound
     DEF Reject, UnknownModel, NoneFits, NoAdapter, NoClient, ConversionFails, UpstreamFails
<1>3. CASE Attempt(r) \/ Connect(r)
  BY <1>3, CallSound
<1>4. CASE Skip(r)
  <2>1. PICK c \in Untried(r) : Advance(r, c) \/ GiveUp(r, c)
    BY <1>4 DEF Skip
  <2> QED
    BY <1>4, <2>1, FallbackSound DEF Skip
<1>5. CASE TransportFails(r)
  <2>1. call[r].to \in Untried(r)
    BY <1>5 DEF TransportFails, Sound, Course, Order, Untried
  <2> QED
    BY <1>5, <2>1, FallbackSound DEF TransportFails
<1>6. CASE UpstreamResponds(r) \/ StartStream(r)
  BY <1>6, AnswerSound
<1>7. CASE CopyEnds(r) \/ CopyFails(r) \/ Respond(r) \/ StreamEnds(r)
  BY <1>7, EndSound
<1>8. CASE Disconnect(r)
  BY <1>8, Frame DEF Disconnect, Local, route, outcome
<1> QED
  BY <1>1, <1>2, <1>3, <1>4, <1>5, <1>6, <1>7, <1>8 DEF Step, Handle, Finish

LEMMA DInvStep == DInv /\ [Next]_vars => DInv'
<1> SUFFICES ASSUME DInv, [Next]_vars PROVE DInv'
  OBVIOUS
<1>1. TypeOK'
  BY TypeStep
<1>2. ASSUME NEW s \in Requests PROVE Sound(s)'
  <2>0. TypeOK /\ \A r \in Requests : Sound(r)
    BY DEF DInv
  <2>1. CASE Reload \/ UNCHANGED vars
    BY <2>0, <2>1, Frame DEF Reload, vars, Local, route, outcome
  <2>2. ASSUME NEW r \in Requests, Step(r) PROVE Sound(s)'
    BY <2>0, <2>2, Others, Frame, StepSound
  <2> QED
    BY <2>1, <2>2 DEF Next, Step
<1> QED
  BY <1>1, <1>2 DEF DInv

THEOREM Invariance == Spec => []DInv
<1>1. Init => DInv
  BY InitSound
<1>2. DInv /\ [Next]_vars => DInv'
  BY DInvStep
<1> QED
  BY <1>1, <1>2, PTL DEF Spec

\* Every reachable state is well-typed: what the files declare is what the requests
\* carry.
THEOREM Types == Spec => []TypeOK
<1>1. DInv => TypeOK
  BY DEF DInv
<1> QED
  BY <1>1, Invariance, PTL

\* A key goes only to the base URL it was configured with, for the provider the request
\* was resolved to (dispatch.go:350).
THEOREM KeysStayWithTheirProvider == Spec => []CredentialsTogether
<1>1. DInv => CredentialsTogether
  BY DEF DInv, Sound, CredentialsTogether
<1> QED
  BY <1>1, Invariance, PTL

\* An adapter's request goes to an endpoint declared with its protocol (server.go:99).
THEOREM AdaptersKeepTheirProtocol == Spec => []SpeaksItsProtocol
<1>1. DInv => SpeaksItsProtocol
  BY DEF DInv, Sound, SpeaksItsProtocol
<1> QED
  BY <1>1, Invariance, PTL

\* Responses providers are tried in order, each once, up to the first that responds.
THEOREM CandidatesInOrder == Spec => []FallbackInOrder
<1>1. DInv => FallbackInOrder
  BY DEF DInv, Sound, FallbackInOrder
<1> QED
  BY <1>1, Invariance, PTL

\* An image among the items of the input is sent only to models that take images.
THEOREM ImagesAreSeen == Spec => []ImagesOnlyToVision
<1>1. DInv => ImagesOnlyToVision
  BY DEF DInv, Sound, Course, Origin, ImagesOnlyToVision, Vision, SentToVision
<1> QED
  BY <1>1, Invariance, PTL

\* Reports and statistics agree with what the client got.
THEOREM ReportsAreTrue == Spec => []ReportedAsServed
<1>1. DInv => ReportedAsServed
  BY DEF DInv, Sound, ReportedAsServed
<1> QED
  BY <1>1, Invariance, PTL
=============================================================================
