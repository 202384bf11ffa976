---------------------------- MODULE MCDispatch ----------------------------
(***************************************************************************)
(* Instances of Dispatch for TLC: three providers that change their        *)
(* protocol, address, key and priority, or disappear, from file to file.   *)
(***************************************************************************)
EXTENDS Dispatch, TLC

Slug == "sonnet"

Sells(upstream, priority) == {[model |-> Slug, upstream |-> upstream, priority |-> priority]}

Def(protocol, url, key, offers) ==
  [protocol |-> protocol, url |-> url, key |-> key, offers |-> offers]

\* Two Responses providers and a third behind them, the first under a name of its own.
Passing ==
  [providers |-> 1 :> Def("openai-response", "u1", "k1", Sells("sonnet-4", 1))
              @@ 2 :> Def("openai-response", "u2", "k2", Sells(None, 0))
              @@ 3 :> Def("openai-response", "u3", "k3", Sells(None, 1)),
   vision |-> {Slug},
   routes |-> "alias" :> [provider |-> None, model |-> Slug]]

\* The second provider is gone, the first now speaks Chat.
Chatting ==
  [providers |-> 1 :> Def("openai-chat", "u4", "k4", Sells("sonnet-4", 0))
              @@ 3 :> Def("openai-response", "u3", "k5", Sells(None, 0)),
   vision |-> {Slug},
   routes |-> "alias" :> [provider |-> 1, model |-> Slug]]

\* No protocol given; nothing sees images; no route.
Plain ==
  [providers |-> 1 :> Def(None, "u1", "k1", Sells("sonnet-4", 0))
              @@ 2 :> Def("google-genai", "u6", "k6", Sells(None, 0)),
   vision |-> {},
   routes |-> << >>]

ConfigFiles == {Passing, Chatting, Plain}

ModelNames == {Slug, "sonnet-4", "alias", "sonnet(2)", "other"}

References ==
  [n \in ModelNames |-> IF n = "sonnet(2)" THEN [provider |-> 2, model |-> Slug] ELSE None]

AllAsks ==
  [model : ModelNames, image : Images, stream : BOOLEAN]

\* The binaries register an adapter for each protocol; a server may have no registry.
AllOrNone == {{}, Protocols \ {"openai-response"}}
=============================================================================
