-------------------------- MODULE MCConfigStore ---------------------------
(***************************************************************************)
(* Instances of ConfigStore for TLC: the config file, the tables the runs  *)
(* start from, and the requests the clients choose from.                   *)
(***************************************************************************)
EXTENDS ConfigStore

CONSTANTS p1, p2, m1, m2, r1, v, w

\* One provider that offers one model, and a route to it.
File ==
  [settings  |-> [seeded |-> TRUE, value |-> NoValue],
   models    |-> {m1},
   providers |-> [p \in Providers |-> IF p = p1 THEN [url |-> v, key |-> v] ELSE Absent],
   offers    |-> {<<p1, m1>>},
   routes    |-> [r \in Routes |-> [model |-> m1, provider |-> p1]]]

\* The file adds a second model.
LargerFile == [File EXCEPT !.models = {m1, m2}, !.offers = {<<p1, m1>>, <<p1, m2>>}]

\* Two providers offer the model and the route names neither: a load takes the one
\* that comes first in map order.
SharedFile ==
  [File EXCEPT !.providers[p2] = [url |-> w, key |-> w],
               !.offers = {<<p1, m1>>, <<p2, m1>>},
               !.routes[r1] = [model |-> m1, provider |-> NoProvider]]

FreshStore  == {EmptyTables}
SharedStore == {SharedFile}

\* A PATCH that keeps the masked key, an offer, and the deletion of its provider.
\* Rows with an offer that came after the deletion do not load, until the deletion
\* comes again or a PATCH brings the provider back.
EditMenu ==
  { Request("patchProvider", p1, [url |-> w, key |-> Mask]),
    Request("putOffer", <<p1, m1>>, NoValue),
    Request("deleteProvider", p1, NoValue) }

\* The other single changes, and an offer of a model that may not exist: a profile
\* is saved and activated between them.
ProfileMenu ==
  { Request("putModel", m2, NoValue),
    Request("putOffer", <<p1, m2>>, NoValue),
    Request("putProvider", p1, [url |-> w, key |-> w]),
    Request("putRoute", r1, [model |-> m2, provider |-> NoProvider]),
    Request("putSetting", NoValue, v),
    Request("deleteOffer", <<p1, m1>>, NoValue),
    Request("deleteModel", m2, NoValue),
    Request("deleteRoute", r1, NoValue) }

\* One change that is always valid: enough for a discard, or the activation of a
\* profile, to meet an Apply.
SettingMenu == { Request("putSetting", NoValue, v) }

\* Rows that appear one by one under an Apply.
ImportMenu == { Request("import", NoValue, LargerFile) }
=============================================================================
