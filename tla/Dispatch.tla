----------------------------- MODULE Dispatch -----------------------------
(***************************************************************************)
(* How a request is dispatched (internal/service/server/dispatch.go and    *)
(* adapter_dispatch.go): the model is resolved to candidate providers,     *)
(* those that cannot take the input are left out, and the first candidate  *)
(* decides: a provider of the OpenAI Responses protocol is called as it is,*)
(* falling back to the next one, any other through its adapter.            *)
(*                                                                         *)
(* A request reads the runtime's config several times, and any two of its  *)
(* readings may be separated by a reload.  Of the runtime only the config  *)
(* in force is modelled; ConfigStore says how it changes.                  *)
(***************************************************************************)
EXTENDS ModelRouting, Sequences

\* Where a request has an image: nowhere, among the items of its input, or only in
\* the content of a message or of a tool's output.
Images == {"none", "item", "content"}

CONSTANTS
  Requests,   \* requests in progress
  Asks,       \* what a request may ask for: [model, image, stream]
  Registries  \* the protocols the adapter registry may have an adapter for

ASSUME DispatchAssumption ==
  /\ Asks \subseteq [model : Names, image : Images, stream : BOOLEAN]
  /\ Registries \subseteq SUBSET (Protocols \ {"openai-response"})
  /\ None \notin Asks /\ None \notin Configs
  /\ None \notin [to : Candidate, url : Urls, key : Keys]

VARIABLES
  live,      \* the config of Runtime.Current()
  boot,      \* the config the process started with
  adapters,  \* the protocols in the adapter registry
  pc,        \* what the request's goroutine does next
  ask,       \* the request's model and input
  cands,     \* ResolvedRoute.Candidates
  failed,    \* the candidates that handleOpenAIResponse has given up
  pm,        \* the config of the provider manager that handleOpenAIResponse uses
  call,      \* the upstream call: candidate, base URL and key
  answer,    \* the status written to the client
  reports,   \* the statuses given to onRequestCompleted
  billed,    \* how often usage was recorded in the statistics
  gone       \* the client has closed the connection

server  == <<live, boot, adapters>>
route   == <<ask, cands, failed, pm, call>>
outcome == <<answer, reports, billed>>
vars    == <<server, pc, route, outcome, gone>>

Statuses == {"none", "ok", "upstream error", "bad request", "not found",
             "bad gateway", "internal error"}
Steps    == {"idle", "received", "resolved", "filtered", "passing", "calling",
             "copying", "converting", "connecting", "asking", "streaming", "done"}
Call     == [to : Candidate, url : Urls, key : Keys]

TypeOK ==
  /\ live \in Configs /\ boot \in Configs /\ adapters \in Registries
  /\ pc \in [Requests -> Steps]
  /\ ask \in [Requests -> Asks \cup {None}]
  /\ cands \in [Requests -> SUBSET Candidate]
  /\ failed \in [Requests -> SUBSET Candidate]
  /\ pm \in [Requests -> Configs \cup {None}]
  /\ call \in [Requests -> Call \cup {None}]
  /\ answer \in [Requests -> Statuses]
  /\ reports \in [Requests -> Seq({"success", "error"})]
  /\ billed \in [Requests -> Nat]
  /\ gone \in [Requests -> BOOLEAN]

Init ==
  /\ live \in Configs /\ boot = live
  /\ adapters \in Registries
  /\ pc = [r \in Requests |-> "idle"]
  /\ ask = [r \in Requests |-> None]
  /\ cands = [r \in Requests |-> {}]
  /\ failed = [r \in Requests |-> {}]
  /\ pm = [r \in Requests |-> None]
  /\ call = [r \in Requests |-> None]
  /\ answer = [r \in Requests |-> "none"]
  /\ reports = [r \in Requests |-> <<>>]
  /\ billed = [r \in Requests |-> 0]
  /\ gone = [r \in Requests |-> FALSE]

-----------------------------------------------------------------------------
(***************************************************************************)
(* Steps of every request.                                                 *)
(***************************************************************************)

Goto(r, step) == pc' = [pc EXCEPT ![r] = step]

\* An error is written, and the handler returns without calling onRequestCompleted.
Refuse(r, status) ==
  /\ answer' = [answer EXCEPT ![r] = status]
  /\ Goto(r, "done")
  /\ UNCHANGED <<reports, billed>>

\* An error is written and reported.
RefuseAndReport(r, status) ==
  /\ answer' = [answer EXCEPT ![r] = status]
  /\ reports' = [reports EXCEPT ![r] = Append(@, "error")]
  /\ Goto(r, "done")
  /\ UNCHANGED billed

Receive(r) ==
  /\ pc[r] = "idle"
  /\ ask' \in { [ask EXCEPT ![r] = a] : a \in Asks }
  /\ Goto(r, "received")
  /\ UNCHANGED <<server, cands, failed, pm, call, outcome, gone>>

\* Not a POST, a body that cannot be read, or no JSON.
Reject(r) ==
  /\ pc[r] = "idle"
  /\ Refuse(r, "bad request")
  /\ UNCHANGED <<server, route, gone>>

Resolve(r) ==
  /\ pc[r] = "received"
  /\ ResolveModel(live, ask[r].model) # {}
  /\ cands' = [cands EXCEPT ![r] = ResolveModel(live, ask[r].model)]
  /\ Goto(r, "resolved")
  /\ UNCHANGED <<server, ask, failed, pm, call, outcome, gone>>

UnknownModel(r) ==
  /\ pc[r] = "received"
  /\ ResolveModel(live, ask[r].model) = {}
  /\ Refuse(r, "not found")
  /\ UNCHANGED <<server, route, gone>>

\* requestHasImage reads the type of each item of the input, and no item's content.
RequestHasImage(r) == ask[r].image = "item"

\* Mutant: only the first candidate is examined.
FirstTakes(r) ==
  IF \/ ~RequestHasImage(r)
     \/ \E c \in cands[r] : IsFirst(c, cands[r]) /\ SeesImages(live, c.provider, c.model)
  THEN cands[r]
  ELSE { c \in cands[r] : SeesImages(live, c.provider, c.model) }

\* filterCandidatesByInput, with the provider manager of this moment.
Fit(r) ==
  { c \in cands[r] : RequestHasImage(r) => SeesImages(live, c.provider, c.model) }

Filter(r) ==
  /\ pc[r] = "resolved"
  /\ Fit(r) # {}
  /\ cands' = [cands EXCEPT ![r] = Fit(r)]
  /\ Goto(r, "filtered")
  /\ UNCHANGED <<server, ask, failed, pm, call, outcome, gone>>

NoneFits(r) ==
  /\ pc[r] = "resolved"
  /\ Fit(r) = {}
  /\ Refuse(r, "bad gateway")
  /\ UNCHANGED <<server, route, gone>>

-----------------------------------------------------------------------------
(***************************************************************************)
(* Pass-through to providers of the Responses protocol                     *)
(* (handleOpenAIResponse).                                                 *)
(***************************************************************************)

\* The handler keeps one provider manager for all its attempts.
PassThrough(r) ==
  /\ pc[r] = "filtered"
  /\ \E c \in cands[r] : IsFirst(c, cands[r]) /\ c.protocol = "openai-response"
  /\ pm' = [pm EXCEPT ![r] = live]
  /\ Goto(r, "passing")
  /\ UNCHANGED <<server, ask, cands, failed, call, outcome, gone>>

\* Only candidates of the Responses protocol are attempted.
Attemptable(r) == { c \in cands[r] : c.protocol = "openai-response" }
Untried(r)     == Attemptable(r) \ failed[r]

\* Mutant: the loop goes on without advancing.
StayAt(r, c) ==
  /\ Untried(r) # {c}
  /\ Goto(r, "passing")
  /\ UNCHANGED <<failed, outcome>>

\* Candidate c cannot be used: continue with the next one, ...
Advance(r, c) ==
  /\ Untried(r) # {c}
  /\ failed' = [failed EXCEPT ![r] = @ \cup {c}]
  /\ Goto(r, "passing")
  /\ UNCHANGED outcome

\* ... or, after the last, report the error through hookErr.
GiveUp(r, c) ==
  /\ Untried(r) = {c}
  /\ failed' = [failed EXCEPT ![r] = @ \cup {c}]
  /\ RefuseAndReport(r, "bad gateway")

\* The provider was removed since the model was resolved: no base URL.
Skip(r) ==
  /\ pc[r] = "passing"
  /\ \E c \in Untried(r) :
       /\ IsFirst(c, Untried(r))
       /\ ProviderBaseURL(pm[r], c.provider) = None
       /\ Advance(r, c) \/ GiveUp(r, c)
  /\ UNCHANGED <<server, ask, cands, pm, call, gone>>

\* Mutant: the key is read from the config of the moment.
CurrentKey(r, c) == ProviderAPIKey(live, c.provider)

KeyFor(r, c) == ProviderAPIKey(pm[r], c.provider)

Attempt(r) ==
  /\ pc[r] = "passing"
  /\ \E c \in Untried(r) :
       /\ IsFirst(c, Untried(r))
       /\ ProviderBaseURL(pm[r], c.provider) # None
       /\ call' = [call EXCEPT ![r] =
            [to |-> c, url |-> ProviderBaseURL(pm[r], c.provider), key |-> KeyFor(r, c)]]
  /\ Goto(r, "calling")
  /\ UNCHANGED <<server, ask, cands, failed, pm, outcome, gone>>

\* The request cannot be built or sent, or its context has ended.
TransportFails(r) ==
  /\ pc[r] = "calling"
  /\ Advance(r, call[r].to) \/ GiveUp(r, call[r].to)
  /\ UNCHANGED <<server, ask, cands, pm, call, gone>>

\* The upstream's status is passed on, whatever it is.
UpstreamResponds(r) ==
  /\ pc[r] = "calling"
  /\ \E status \in {"ok", "upstream error"} : answer' = [answer EXCEPT ![r] = status]
  /\ Goto(r, "copying")
  /\ UNCHANGED <<server, route, reports, billed, gone>>

\* The body was copied.  Usage is recorded if there is any in a 2xx response.
CopyEnds(r) ==
  /\ pc[r] = "copying"
  /\ reports' = [reports EXCEPT ![r] =
       Append(@, IF answer[r] = "ok" THEN "success" ELSE "error")]
  /\ \E n \in IF answer[r] = "ok" THEN {0, 1} ELSE {0} :
       billed' = [billed EXCEPT ![r] = @ + n]
  /\ Goto(r, "done")
  /\ UNCHANGED <<server, route, answer, gone>>

\* Mutant: hookErr is not set.
CopyFailsSilently(r) ==
  /\ pc[r] = "copying"
  /\ Goto(r, "done")
  /\ UNCHANGED <<server, route, outcome, gone>>

\* The body cannot be copied: the header is out, hookErr reports the error.
CopyFails(r) ==
  /\ pc[r] = "copying"
  /\ reports' = [reports EXCEPT ![r] = Append(@, "error")]
  /\ Goto(r, "done")
  /\ UNCHANGED <<server, route, answer, billed, gone>>

-----------------------------------------------------------------------------
(***************************************************************************)
(* Dispatch through an adapter (handleWithAdapters, handleAdapterStream):  *)
(* the first candidate only.                                               *)
(***************************************************************************)

ToAdapter(r) ==
  /\ pc[r] = "filtered"
  /\ \E c \in cands[r] : IsFirst(c, cands[r]) /\ c.protocol \in adapters
  /\ Goto(r, "converting")
  /\ UNCHANGED <<server, route, outcome, gone>>

NoAdapter(r) ==
  /\ pc[r] = "filtered"
  /\ \E c \in cands[r] :
       IsFirst(c, cands[r]) /\ c.protocol \notin adapters \cup {"openai-response"}
  /\ RefuseAndReport(r, "internal error")
  /\ UNCHANGED <<server, route, gone>>

\* ToCoreRequest and FromCoreRequest.
Convert(r) ==
  /\ pc[r] = "converting"
  /\ Goto(r, "connecting")
  /\ UNCHANGED <<server, route, outcome, gone>>

\* Mutant: the client is made from the provider's entry whatever its protocol.
AnyClient(p, protocol) ==
  { [url |-> live.providers[q].url, key |-> live.providers[q].key] :
      q \in DOMAIN live.providers \cap {p} }

\* activeChatClient and activeGoogleClient: from the live config if the provider still
\* speaks the protocol, else the client made at start, if there is one.
ActiveClient(p, protocol) ==
  LET speaks(c) == p \in DOMAIN c.providers /\ c.providers[p].protocol = protocol
      client(c) == [url |-> c.providers[p].url, key |-> c.providers[p].key]
  IN  IF speaks(live) THEN {client(live)}
      ELSE IF speaks(boot) THEN {client(boot)} ELSE {}

\* An Anthropic provider's client is the one the model was resolved to.
ClientFor(c) ==
  IF c.protocol = "anthropic" THEN {[url |-> c.url, key |-> c.key]}
  ELSE ActiveClient(c.provider, c.protocol)

Connect(r) ==
  /\ pc[r] = "connecting"
  /\ \E c \in cands[r] : IsFirst(c, cands[r]) /\ \E client \in ClientFor(c) :
       call' = [call EXCEPT ![r] = [to |-> c, url |-> client.url, key |-> client.key]]
  /\ Goto(r, "asking")
  /\ UNCHANGED <<server, ask, cands, failed, pm, outcome, gone>>

NoClient(r) ==
  /\ pc[r] = "connecting"
  /\ \E c \in cands[r] : IsFirst(c, cands[r]) /\ ClientFor(c) = {}
  /\ Refuse(r, "bad gateway")
  /\ UNCHANGED <<server, route, gone>>

\* A conversion fails, before or after the upstream call.
ConversionFails(r) ==
  /\ pc[r] \in {"converting", "asking"}
  /\ Refuse(r, "internal error")
  /\ UNCHANGED <<server, route, gone>>

\* The upstream answers with an error or not at all, or the context has ended.
UpstreamFails(r) ==
  /\ pc[r] = "asking"
  /\ Refuse(r, "bad gateway")
  /\ UNCHANGED <<server, route, gone>>

Respond(r) ==
  /\ pc[r] = "asking" /\ ~ask[r].stream
  /\ answer' = [answer EXCEPT ![r] = "ok"]
  /\ reports' = [reports EXCEPT ![r] = Append(@, "success")]
  /\ billed' = [billed EXCEPT ![r] = @ + 1]
  /\ Goto(r, "done")
  /\ UNCHANGED <<server, route, gone>>

StartStream(r) ==
  /\ pc[r] = "asking" /\ ask[r].stream
  /\ answer' = [answer EXCEPT ![r] = "ok"]
  /\ Goto(r, "streaming")
  /\ UNCHANGED <<server, route, reports, billed, gone>>

\* All events are written, or one of them cannot be; usage may have come or not.
StreamEnds(r) ==
  /\ pc[r] = "streaming"
  /\ reports' = [reports EXCEPT ![r] = Append(@, "success")]
  /\ \E n \in {0, 1} : billed' = [billed EXCEPT ![r] = @ + n]
  /\ Goto(r, "done")
  /\ UNCHANGED <<server, route, answer, gone>>

-----------------------------------------------------------------------------
(***************************************************************************)
(* The environment.                                                        *)
(***************************************************************************)

\* Runtime.Reload with any valid config, the same one included.
Reload ==
  /\ live' \in Configs
  /\ UNCHANGED <<boot, adapters, pc, route, outcome, gone>>

\* The client closes the connection, which ends the request's context.
Disconnect(r) ==
  /\ pc[r] \notin {"idle", "done"} /\ ~gone[r]
  /\ gone' = [gone EXCEPT ![r] = TRUE]
  /\ UNCHANGED <<server, pc, route, outcome>>

\* What the handler does on its own.
Handle(r) ==
  \/ Resolve(r) \/ UnknownModel(r) \/ Filter(r) \/ NoneFits(r)
  \/ PassThrough(r) \/ Skip(r) \/ Attempt(r)
  \/ ToAdapter(r) \/ NoAdapter(r) \/ Convert(r) \/ Connect(r) \/ NoClient(r)

\* What ends an upstream call or a transfer.
Finish(r) ==
  \/ TransportFails(r) \/ CopyFails(r) \/ UpstreamFails(r) \/ StreamEnds(r)

Next ==
  \/ \E r \in Requests :
       \/ Receive(r) \/ Reject(r) \/ Handle(r) \/ Finish(r)
       \/ UpstreamResponds(r) \/ CopyEnds(r)
       \/ ConversionFails(r) \/ Respond(r) \/ StartStream(r)
       \/ Disconnect(r)
  \/ Reload

\* An upstream may keep a request waiting for ever (the HTTP client has no timeout); it
\* is given up when the client has gone.
Fairness ==
  \A r \in Requests : WF_vars(Handle(r)) /\ WF_vars(gone[r] /\ Finish(r))

Spec == Init /\ [][Next]_vars /\ Fairness

-----------------------------------------------------------------------------
(***************************************************************************)
(* Properties.                                                             *)
(***************************************************************************)

Configured(c, p, url, key) ==
  p \in DOMAIN c.providers /\ c.providers[p].url = url /\ c.providers[p].key = key

\* A key goes only to the base URL it was configured with, for the provider the
\* request was resolved to, whatever reloads came in between (dispatch.go:350).
Credentials(r) ==
  call[r] # None =>
    \E c \in Configs : Configured(c, call[r].to.provider, call[r].url, call[r].key)

CredentialsTogether == \A r \in Requests : Credentials(r)

\* An adapter sends its protocol's request to an endpoint that some config declares
\* with that protocol, also when a reload changed the provider's protocol after the
\* adapter was chosen (server.go:99).
Endpoint(r) ==
  call[r] # None /\ pm[r] = None =>
    \E c \in Configs :
      /\ Configured(c, call[r].to.provider, call[r].url, call[r].key)
      /\ ProtocolForKey(c, call[r].to.provider) = call[r].to.protocol

SpeaksItsProtocol == \A r \in Requests : Endpoint(r)

\* A Responses provider is called only when every one of the candidates before it, by
\* priority and then by key, has failed; none is called once an upstream has
\* responded; and the request is given up only when all have failed.
Order(r) ==
  pm[r] # None =>
    /\ pc[r] \in {"calling", "copying"} =>
         /\ call[r].to \in Attemptable(r) \ failed[r]
         /\ \A c \in Attemptable(r) \ {call[r].to} :
              \/ c.priority < call[r].to.priority
              \/ c.priority = call[r].to.priority /\ c.provider < call[r].to.provider
              => c \in failed[r]
    /\ answer[r] \in {"ok", "upstream error"} =>
         pc[r] \in {"copying", "done"} /\ call[r].to \notin failed[r]
    /\ answer[r] = "bad gateway" => Attemptable(r) \subseteq failed[r]

FallbackInOrder == \A r \in Requests : Order(r)

\* The candidate called takes images, by some config.
SentToVision(r) ==
  \E c \in Configs : SeesImages(c, call[r].to.provider, call[r].to.model)

\* A request whose input has an image among its items is only sent to a model that
\* takes images at its provider, also after falling back and across reloads
\* (server.go:367).  Of an image inside a message or a tool's output nothing is said:
\* see NestedImagesOnlyToVision.
Vision(r) == call[r] # None /\ ask[r].image = "item" => SentToVision(r)

ImagesOnlyToVision == \A r \in Requests : Vision(r)

\* A request is reported to the completion hooks at most once, a passed-through one
\* exactly once whichever way it ends; success is reported, and usage recorded, only
\* for a request that was answered with 200.
Report(r) ==
  /\ Len(reports[r]) <= 1
  /\ pc[r] = "done" /\ pm[r] # None => Len(reports[r]) = 1
  /\ reports[r] = <<"success">> => answer[r] = "ok"
  /\ billed[r] > 0 => billed[r] = 1 /\ reports[r] = <<"success">>

ReportedAsServed == \A r \in Requests : Report(r)

\* A request whose client has gone ends, whatever its upstreams do.
AbandonedRequestsEnd ==
  \A r \in Requests : gone[r] ~> pc[r] = "done"

\* Completion hooks are called after each request, regardless of success or failure
\* (capabilities.go:161): at least after each that was sent to a provider.
\* Does not hold: the errors of the adapter path are not reported.
EverySentRequestReported ==
  \A r \in Requests : pc[r] = "done" /\ call[r] # None => reports[r] # <<>>

\* Candidates are filtered by the features of a request, an image in its input for one
\* (dispatch.go:122), wherever the client has put it.
\* Does not hold: an image in the content of a message goes to any model.
NestedImagesOnlyToVision ==
  \A r \in Requests : call[r] # None /\ ask[r].image # "none" => SentToVision(r)

\* The names under which a file has provider p offer the model.
NamesAt(p, slug) ==
  UNION { { UpstreamName(o) : o \in { e \in f.providers[p].offers : e.model = slug } } :
          f \in { g \in Files : p \in DOMAIN g.providers } }

\* A provider that offers the model asked for is sent its upstream name
\* (config.go:208).  Does not hold: a request by slug is sent under the slug.
SendsUpstreamName ==
  \A r \in Requests :
    call[r] # None /\ NamesAt(call[r].to.provider, ask[r].model) # {} =>
      call[r].to.model \in NamesAt(call[r].to.provider, ask[r].model)
=============================================================================
