------------------------ MODULE StreamContent_proofs ------------------------
(***************************************************************************)
(* Proofs about what the client gets, for every protocol and streams of    *)
(* every length: at the end of a stream in the usual order the answer has  *)
(* all that was given.                                                     *)
(*                                                                         *)
(* An account of the events says which items they make, with what text,    *)
(* and of which blocks: what the loop has done so far is one account, what *)
(* it will have done when the queue is empty is another, and each event in *)
(* between takes one to the next. The account is of streams in the usual   *)
(* order: elsewhere there is none. The invariant is Kept, at the end.      *)
(***************************************************************************)
EXTENDS ProviderStreams_proofs

\* The items, from 1; the place of a block's item; the blocks of text that have no item
\* yet; the blocks whose item has not been completed.
Account == [items : Seq([type : ItemTypes, text : Pieces]), at : Partial(Nat),
            begun : SUBSET Nat, open : SUBSET Nat]

Placing(a) ==
    /\ \A i \in DOMAIN a.at : a.at[i] \in 1..Len(a.items)
    /\ \A i, j \in DOMAIN a.at : a.at[i] = a.at[j] => i = j
    /\ a.open \subseteq DOMAIN a.at
    /\ \A i \in a.begun : i \notin DOMAIN a.at

Accounts == {a \in Account : Placing(a)}

Known(a, i) == i \in DOMAIN a.at \/ i \in a.begun
ItemAt(a, i) == a.items[a.at[i]]
IsCall(a, i) == ItemAt(a, i).type = "function_call"

Begun(a, i) ==
    [items |-> a.items, at |-> a.at, begun |-> a.begun \cup {i}, open |-> a.open]
Opened(a, i, type, text) ==
    [items |-> Append(a.items, [type |-> type, text |-> text]),
     at |-> With(a.at, i, Len(a.items) + 1), begun |-> a.begun \ {i}, open |-> a.open \cup {i}]
Grew(a, i, text) ==
    [items |-> [a.items EXCEPT ![a.at[i]] = [type |-> ItemAt(a, i).type, text |-> text]],
     at |-> a.at, begun |-> a.begun, open |-> a.open]
Shut(a, i) == [items |-> a.items, at |-> a.at, begun |-> a.begun, open |-> a.open \ {i}]

\* What an event does to the account.
Starts(a, i, block, b) ==
    /\ ~ Known(a, i)
    /\ \/ block = "text" /\ b = Begun(a, i)
       \/ block = "reasoning" /\ b = Opened(a, i, "reasoning", <<>>)
       \/ block = "tool_use" /\ b = Opened(a, i, "function_call", <<>>)
Adds(a, i, text, b) ==
    \/ i \in a.begun /\ b = Opened(a, i, "message", text)
    \/ i \in a.open /\ ~ IsCall(a, i) /\ b = Grew(a, i, ItemAt(a, i).text \o text)
AddsArgs(a, i, text, b) ==
    i \in a.open /\ IsCall(a, i) /\ b = Grew(a, i, ItemAt(a, i).text \o text)
EndsArgs(a, i, text, b) ==
    /\ i \in a.open /\ IsCall(a, i)
    /\ b = Shut(IF text = <<>> THEN a ELSE Grew(a, i, text), i)
EndsBlock(a, i, b) ==
    \/ i \in a.open /\ b = Shut(a, i)
    \/ i \in a.begun /\ b = Shut(Opened(a, i, "message", <<>>), i)
    \/ ~ Known(a, i) /\ b = a
    \/ i \in DOMAIN a.at /\ i \notin a.open /\ IsCall(a, i) /\ b = a

Follows(a, e, b) ==
    /\ e.type \in Plain => b = a
    /\ e.type = "block_started" => Starts(a, e.index, e.block, b)
    /\ e.type = "text_delta" => Adds(a, e.index, e.delta, b)
    /\ e.type = "args_delta" => AddsArgs(a, e.index, e.delta, b)
    /\ e.type = "args_done" => EndsArgs(a, e.index, e.delta, b)
    /\ e.type = "block_done" => EndsBlock(a, e.index, b)

LEMMA AccountIs ==
  ASSUME NEW a \in Accounts
  PROVE  /\ a \in Account /\ Placing(a) /\ Len(a.items) \in Nat
         /\ a.items \in Seq([type : ItemTypes, text : Pieces])
         /\ \A n \in 1..Len(a.items) : a.items[n].type \in ItemTypes /\ a.items[n].text \in Pieces
         /\ a.at \in Partial(Nat) /\ DOMAIN a.at \subseteq Nat
         /\ a.begun \in SUBSET Nat /\ a.open \in SUBSET Nat
         /\ a = [items |-> a.items, at |-> a.at, begun |-> a.begun, open |-> a.open]
<1>1. a \in Account /\ Placing(a)
  BY DEF Accounts
<1>2. /\ a.items \in Seq([type : ItemTypes, text : Pieces]) /\ a.at \in Partial(Nat)
      /\ a.begun \in SUBSET Nat /\ a.open \in SUBSET Nat
      /\ a = [items |-> a.items, at |-> a.at, begun |-> a.begun, open |-> a.open]
  BY <1>1 DEF Account
<1>3. DOMAIN a.at \subseteq Nat
  BY <1>2, PartialAt
<1>4. /\ Len(a.items) \in Nat
      /\ \A n \in 1..Len(a.items) : a.items[n] \in [type : ItemTypes, text : Pieces]
  BY <1>2, ElementsOf
<1> QED
  BY <1>1, <1>2, <1>3, <1>4

LEMMA BegunIs ==
  ASSUME NEW a \in Accounts, NEW i \in Nat, i \notin DOMAIN a.at
  PROVE  /\ Begun(a, i) \in Accounts
         /\ Begun(a, i).items = a.items /\ Begun(a, i).at = a.at
         /\ Begun(a, i).begun = a.begun \cup {i} /\ Begun(a, i).open = a.open
<1> DEFINE b == Begun(a, i)
<1>1. b = [items |-> a.items, at |-> a.at, begun |-> a.begun \cup {i}, open |-> a.open]
  BY DEF Begun
<1> HIDE DEF b
<1>2. b \in Account
  BY <1>1, AccountIs DEF Account
<1>3. Placing(b)
  BY <1>1, AccountIs DEF Placing
<1> QED
  BY <1>1, <1>2, <1>3 DEF Accounts, b

LEMMA ShutIs ==
  ASSUME NEW a \in Accounts, NEW i
  PROVE  /\ Shut(a, i) \in Accounts
         /\ Shut(a, i).items = a.items /\ Shut(a, i).at = a.at
         /\ Shut(a, i).begun = a.begun /\ Shut(a, i).open = a.open \ {i}
<1> DEFINE b == Shut(a, i)
<1>1. b = [items |-> a.items, at |-> a.at, begun |-> a.begun, open |-> a.open \ {i}]
  BY DEF Shut
<1> HIDE DEF b
<1>2. b \in Account
  BY <1>1, AccountIs DEF Account
<1>3. Placing(b)
  BY <1>1, AccountIs DEF Placing
<1> QED
  BY <1>1, <1>2, <1>3 DEF Accounts, b

LEMMA OpenedIs ==
  ASSUME NEW a \in Accounts, NEW i \in Nat, i \notin DOMAIN a.at, NEW type \in ItemTypes,
         NEW text \in Pieces, NEW b, b = Opened(a, i, type, text)
  PROVE  /\ b \in Accounts
         /\ Len(a.items) \in Nat /\ Len(b.items) = Len(a.items) + 1
         /\ b.items = Append(a.items, [type |-> type, text |-> text])
         /\ \A n \in 1..Len(a.items) : b.items[n] = a.items[n]
         /\ b.items[Len(a.items) + 1] = [type |-> type, text |-> text]
         /\ DOMAIN b.at = DOMAIN a.at \cup {i} /\ b.at[i] = Len(a.items) + 1
         /\ \A j \in DOMAIN a.at : j # i => b.at[j] = a.at[j]
         /\ b.begun = a.begun \ {i} /\ b.open = a.open \cup {i}
<1> DEFINE S == [type : ItemTypes, text : Pieces]
           m == Len(a.items)
           it == [type |-> type, text |-> text]
<1>1. /\ b.items = Append(a.items, it) /\ b.at = With(a.at, i, m + 1)
      /\ b.begun = a.begun \ {i} /\ b.open = a.open \cup {i}
      /\ b = [items |-> b.items, at |-> b.at, begun |-> b.begun, open |-> b.open]
  BY DEF Opened
<1>2. a.items \in Seq(S) /\ m \in Nat /\ it \in S
  BY AccountIs
<1> HIDE DEF S, it
<1>3. /\ b.items \in Seq(S) /\ Len(b.items) = m + 1
      /\ \A n \in 1..m : b.items[n] = a.items[n]
      /\ b.items[m + 1] = it
  BY <1>1, <1>2, Appended
<1> HIDE DEF m
<1>4. a.at \in Partial(Nat) /\ m + 1 \in Nat
  BY <1>2, AccountIs
<1>5. b.at \in Partial(Nat)
  BY <1>1, <1>4, PartialWith
<1>6. /\ DOMAIN b.at = DOMAIN a.at \cup {i} /\ b.at[i] = m + 1
      /\ \A j \in DOMAIN a.at : j # i => b.at[j] = a.at[j]
  BY <1>1 DEF With
<1>7. b \in Account
  BY <1>1, <1>3, <1>5, AccountIs DEF Account, S
<1>8. Placing(b)
  <2>1. \A j \in DOMAIN b.at : IF j = i THEN b.at[j] = m + 1 ELSE j \in DOMAIN a.at /\ b.at[j] = a.at[j]
    BY <1>6
  <2>2. \A j \in DOMAIN a.at : a.at[j] \in 1..m
    BY AccountIs DEF Placing, m
  <2>3. \A j \in DOMAIN b.at : b.at[j] \in 1..(m + 1)
    BY <1>2, <2>1, <2>2
  <2>4. \A j \in DOMAIN a.at : a.at[j] # m + 1
    BY <1>2, <2>2
  <2>5. \A j, k \in DOMAIN b.at : b.at[j] = b.at[k] => j = k
    BY <2>1, <2>4, AccountIs DEF Placing
  <2> QED
    BY <1>1, <1>3, <1>6, <2>3, <2>5, AccountIs DEF Placing
<1> QED
  BY <1>1, <1>2, <1>3, <1>6, <1>7, <1>8 DEF Accounts, m, it

LEMMA GrewIs ==
  ASSUME NEW a \in Accounts, NEW i \in DOMAIN a.at, NEW text \in Pieces, NEW b, b = Grew(a, i, text)
  PROVE  /\ b \in Accounts
         /\ a.at[i] \in 1..Len(a.items) /\ Len(b.items) = Len(a.items)
         /\ \A n \in 1..Len(a.items) : n # a.at[i] => b.items[n] = a.items[n]
         /\ b.items[a.at[i]] = [type |-> ItemAt(a, i).type, text |-> text]
         /\ b.at = a.at /\ b.begun = a.begun /\ b.open = a.open
<1> DEFINE S == [type : ItemTypes, text : Pieces]
           p == a.at[i]
           it == [type |-> ItemAt(a, i).type, text |-> text]
<1>1. b = [items |-> [a.items EXCEPT ![p] = it], at |-> a.at, begun |-> a.begun, open |-> a.open]
  BY DEF Grew
<1>2. a.items \in Seq(S) /\ p \in 1..Len(a.items)
  BY AccountIs DEF Placing
<1>3. it \in S
  BY <1>2, AccountIs DEF ItemAt
<1> HIDE DEF S, it, p
<1>4. /\ b.items \in Seq(S) /\ Len(b.items) = Len(a.items) /\ b.items[p] = it
      /\ \A n \in 1..Len(a.items) : n # p => b.items[n] = a.items[n]
  BY <1>1, <1>2, <1>3
<1>5. b \in Account
  BY <1>1, <1>4, AccountIs DEF Account, S
<1>6. Placing(b)
  BY <1>1, <1>4, AccountIs DEF Placing
<1> QED
  BY <1>1, <1>2, <1>4, <1>5, <1>6 DEF Accounts, p, it

LEMMA EndsArgsIs ==
  ASSUME NEW a \in Accounts, NEW i, NEW text \in Pieces, NEW b, EndsArgs(a, i, text, b)
  PROVE  /\ b \in Accounts /\ i \in a.open /\ i \in DOMAIN a.at /\ IsCall(a, i)
         /\ a.at[i] \in 1..Len(a.items) /\ Len(b.items) = Len(a.items)
         /\ \A n \in 1..Len(a.items) : n # a.at[i] => b.items[n] = a.items[n]
         /\ b.items[a.at[i]].type = "function_call"
         /\ b.items[a.at[i]].text = IF text = <<>> THEN ItemAt(a, i).text ELSE text
         /\ b.at = a.at /\ b.begun = a.begun /\ b.open = a.open \ {i}
<1>1. i \in a.open /\ i \in DOMAIN a.at /\ IsCall(a, i) /\ a.at[i] \in 1..Len(a.items)
  BY AccountIs DEF EndsArgs, Placing
<1>2. CASE text = <<>>
  <2>1. b = Shut(a, i)
    BY <1>2 DEF EndsArgs
  <2> QED
    BY <1>1, <1>2, <2>1, ShutIs DEF IsCall, ItemAt
<1>3. CASE text # <<>>
  <2>1. PICK c : c = Grew(a, i, text) /\ b = Shut(c, i)
    BY <1>3 DEF EndsArgs
  <2>2. /\ c \in Accounts
        /\ Len(c.items) = Len(a.items)
        /\ \A n \in 1..Len(a.items) : n # a.at[i] => c.items[n] = a.items[n]
        /\ c.items[a.at[i]] = [type |-> ItemAt(a, i).type, text |-> text]
        /\ c.at = a.at /\ c.begun = a.begun /\ c.open = a.open
    BY <1>1, <2>1, GrewIs
  <2> QED
    BY <1>1, <1>3, <2>1, <2>2, ShutIs DEF IsCall
<1> QED
  BY <1>2, <1>3

\* The end of a text without deltas.
LEMMA EndsTextIs ==
  ASSUME NEW a \in Accounts, NEW i \in a.begun, NEW b, b = Shut(Opened(a, i, "message", <<>>), i)
  PROVE  /\ b \in Accounts
         /\ Len(a.items) \in Nat /\ Len(b.items) = Len(a.items) + 1
         /\ \A n \in 1..Len(a.items) : b.items[n] = a.items[n]
         /\ b.items[Len(a.items) + 1].type = "message" /\ b.items[Len(a.items) + 1].text = <<>>
         /\ DOMAIN b.at = DOMAIN a.at \cup {i} /\ b.at[i] = Len(a.items) + 1
         /\ \A j \in DOMAIN a.at : j # i => b.at[j] = a.at[j]
         /\ b.begun = a.begun \ {i} /\ b.open = a.open \ {i}
<1>0. <<>> \in Pieces /\ "message" \in ItemTypes /\ i \in Nat /\ i \notin DOMAIN a.at
  BY AccountIs DEF Pieces, ItemTypes, Placing
<1>1. PICK c : c = Opened(a, i, "message", <<>>)
  OBVIOUS
<1>2. /\ c \in Accounts
      /\ Len(a.items) \in Nat /\ Len(c.items) = Len(a.items) + 1
      /\ \A n \in 1..Len(a.items) : c.items[n] = a.items[n]
      /\ c.items[Len(a.items) + 1] = [type |-> "message", text |-> <<>>]
      /\ DOMAIN c.at = DOMAIN a.at \cup {i} /\ c.at[i] = Len(a.items) + 1
      /\ \A j \in DOMAIN a.at : j # i => c.at[j] = a.at[j]
      /\ c.begun = a.begun \ {i} /\ c.open = a.open \cup {i}
  BY <1>0, <1>1, OpenedIs
<1> QED
  BY <1>1, <1>2, ShutIs

LEMMA FollowsTyped ==
  ASSUME NEW a \in Accounts, NEW e \in CoreEvent, NEW b, Follows(a, e, b)
  PROVE  b \in Accounts
<1>0. PICK i \in Nat, text \in Pieces : i = e.index /\ text = e.delta
  BY DEF CoreEvent
<1>1. /\ "message" \in ItemTypes /\ "reasoning" \in ItemTypes /\ "function_call" \in ItemTypes
      /\ <<>> \in Pieces /\ e.type \in CoreTypes
  BY DEF ItemTypes, Pieces, CoreEvent
<1>2. \A j : j \in a.open \cup DOMAIN a.at => j \in DOMAIN a.at /\ ItemAt(a, j).text \in Pieces
  BY AccountIs DEF Placing, ItemAt
<1>3. \A j : j \in a.begun => j \notin DOMAIN a.at
  BY AccountIs DEF Placing
<1>4. CASE e.type \in Plain
  BY <1>4 DEF Follows
<1>5. CASE e.type = "block_started"
  <2>1. Starts(a, i, e.block, b)
    BY <1>0, <1>5 DEF Follows
  <2>2. i \notin DOMAIN a.at
    BY <2>1 DEF Starts, Known
  <2>3. CASE b = Begun(a, i)
    BY <2>2, <2>3, BegunIs
  <2>4. CASE b = Opened(a, i, "reasoning", <<>>) \/ b = Opened(a, i, "function_call", <<>>)
    BY <1>1, <2>2, <2>4, OpenedIs
  <2> QED
    BY <2>1, <2>3, <2>4 DEF Starts
<1>6. CASE e.type = "text_delta"
  <2>1. Adds(a, i, text, b)
    BY <1>0, <1>6 DEF Follows
  <2>2. CASE i \in a.begun /\ b = Opened(a, i, "message", text)
    BY <1>1, <1>3, <2>2, OpenedIs
  <2>3. CASE i \in a.open /\ b = Grew(a, i, ItemAt(a, i).text \o text)
    <3>1. i \in DOMAIN a.at /\ ItemAt(a, i).text \o text \in Pieces
      BY <1>2, <2>3, ConcatProperties DEF Pieces
    <3> QED
      BY <2>3, <3>1, GrewIs
  <2> QED
    BY <2>1, <2>2, <2>3 DEF Adds
<1>7. CASE e.type = "args_delta"
  <2>1. i \in a.open /\ b = Grew(a, i, ItemAt(a, i).text \o text)
    BY <1>0, <1>7 DEF Follows, AddsArgs
  <2>2. i \in DOMAIN a.at /\ ItemAt(a, i).text \o text \in Pieces
    BY <1>2, <2>1, ConcatProperties DEF Pieces
  <2> QED
    BY <2>1, <2>2, GrewIs
<1>8. CASE e.type = "args_done"
  <2>1. EndsArgs(a, i, text, b)
    BY <1>0, <1>8 DEF Follows
  <2> QED
    BY <2>1, EndsArgsIs
<1>9. CASE e.type = "block_done"
  <2>1. EndsBlock(a, i, b)
    BY <1>0, <1>9 DEF Follows
  <2> QED
    BY <2>1, ShutIs, EndsTextIs DEF EndsBlock
<1> QED
  BY <1>1, <1>4, <1>5, <1>6, <1>7, <1>8, <1>9 DEF CoreTypes, Plain

-----------------------------------------------------------------------------
(***************************************************************************)
(* What the loop knows agrees with an account.                             *)
(***************************************************************************)

KnownTo(i) == i \in DOMAIN contentText \/ Has(i) \/ i \in reasonIndexes \/ i \in DOMAIN toolCallArgs
              \/ i \in toolCallFinalized

BlockIs(a, i) ==
    /\ i \in a.open =>
         /\ Has(i) /\ outputIndexes[i] + 1 = a.at[i]
         /\ i \in reasonIndexes <=> ItemAt(a, i).type = "reasoning"
         /\ i \in DOMAIN contentText <=> ~ IsCall(a, i)
         /\ IF IsCall(a, i)
            THEN i \notin toolCallFinalized /\ ItemAt(a, i).text = Lookup(toolCallArgs, i, <<>>)
            ELSE ItemAt(a, i).text = contentText[i]
    /\ i \in a.begun =>
         i \in DOMAIN contentText /\ contentText[i] = <<>> /\ i \notin reasonIndexes /\ ~ Has(i)
    /\ ~ Known(a, i) => ~ KnownTo(i)
    /\ i \in DOMAIN a.at /\ i \notin a.open /\ IsCall(a, i) =>
         i \in toolCallFinalized /\ i \notin DOMAIN contentText /\ i \notin reasonIndexes /\ Has(i)

Finished(a, n) == \A i \in a.open : a.at[i] # n

PlaceIs(a, n) ==
    /\ output[n].type = a.items[n].type
    /\ Finished(a, n) => output[n].status = "completed" /\ output[n].text = a.items[n].text

Accounted(a) ==
    /\ a \in Accounts /\ Len(output) = Len(a.items)
    /\ \A i \in Nat : BlockIs(a, i)
    /\ \A n \in 1..Len(output) : PlaceIs(a, n)

\* A step has nothing to do with a block.
MapsAlike(j) ==
    /\ j \in DOMAIN contentText' <=> j \in DOMAIN contentText
    /\ j \in DOMAIN contentText => contentText'[j] = contentText[j]
    /\ j \in DOMAIN outputIndexes' <=> j \in DOMAIN outputIndexes
    /\ j \in DOMAIN outputIndexes => outputIndexes'[j] = outputIndexes[j]
    /\ j \in DOMAIN toolCallArgs' <=> j \in DOMAIN toolCallArgs
    /\ j \in DOMAIN toolCallArgs => toolCallArgs'[j] = toolCallArgs[j]
    /\ j \in reasonIndexes' <=> j \in reasonIndexes
    /\ j \in toolCallFinalized' <=> j \in toolCallFinalized
PlaceAlike(a, b, j) ==
    /\ j \in DOMAIN b.at <=> j \in DOMAIN a.at
    /\ j \in DOMAIN a.at => b.at[j] = a.at[j]
    /\ j \in b.begun <=> j \in a.begun
    /\ j \in b.open <=> j \in a.open

LEMMA BlockAlike ==
  ASSUME NEW a \in Accounts, NEW b, NEW j, BlockIs(a, j), MapsAlike(j), PlaceAlike(a, b, j),
         j \in DOMAIN a.at => ItemAt(b, j) = ItemAt(a, j)
  PROVE  BlockIs(b, j)'
<1>1. j \in a.open => j \in DOMAIN a.at
  BY AccountIs DEF Placing
<1>2. Known(b, j) <=> Known(a, j)
  BY DEF Known, PlaceAlike
<1>3. KnownTo(j)' <=> KnownTo(j)
  BY DEF KnownTo, MapsAlike, Has
<1>4. j \in DOMAIN a.at => (IsCall(b, j) <=> IsCall(a, j))
  BY DEF IsCall
<1>5. Lookup(toolCallArgs, j, <<>>)' = Lookup(toolCallArgs, j, <<>>)
  BY DEF Lookup, MapsAlike
<1>6. CASE j \in a.open
  BY <1>1, <1>2, <1>4, <1>5, <1>6 DEF BlockIs, MapsAlike, PlaceAlike, Has, Known
<1>7. CASE j \notin a.open
  BY <1>2, <1>3, <1>4, <1>7 DEF BlockIs, MapsAlike, PlaceAlike, Has
<1> QED
  BY <1>6, <1>7

AlikeBut(a, b, i) == \A j : j # i => PlaceAlike(a, b, j)

\* A step about block i, whose item is at position p.
StepAbout(a, b, i, p) ==
    /\ Len(output') = Len(b.items)
    /\ \A n \in 1..Len(output') : n # p =>
            n \in 1..Len(output) /\ output'[n] = output[n] /\ b.items[n] = a.items[n]
    /\ AlikeBut(a, b, i)
    /\ i \in DOMAIN a.at => a.at[i] = p
    /\ \A j \in DOMAIN b.at : j # i => b.at[j] # p
    /\ BlockIs(b, i)'
    /\ p \in 1..Len(output') => PlaceIs(b, p)'

LEMMA AccountedFrom ==
  ASSUME NEW a, Accounted(a), NEW b \in Accounts, NEW i \in Nat, NEW p \in Nat, StepAbout(a, b, i, p),
         \A j : j # i => MapsAlike(j)
  PROVE  Accounted(b)'
<1>0. /\ Len(output') = Len(b.items)
      /\ \A n \in 1..Len(output') : n # p =>
            n \in 1..Len(output) /\ output'[n] = output[n] /\ b.items[n] = a.items[n]
      /\ \A j : j # i => MapsAlike(j) /\ PlaceAlike(a, b, j)
      /\ i \in DOMAIN a.at => a.at[i] = p
      /\ \A j \in DOMAIN b.at : j # i => b.at[j] # p
      /\ BlockIs(b, i)'
      /\ p \in 1..Len(output') => PlaceIs(b, p)'
  BY DEF StepAbout, AlikeBut
<1>1. a \in Accounts /\ Len(output) = Len(a.items)
  BY DEF Accounted
<1>2. ASSUME NEW j \in Nat, j # i PROVE BlockIs(b, j)'
  <2>1. j \in DOMAIN a.at => ItemAt(b, j) = ItemAt(a, j)
    <3>1. SUFFICES ASSUME j \in DOMAIN a.at PROVE ItemAt(b, j) = ItemAt(a, j)
      OBVIOUS
    <3>2. j \in DOMAIN b.at /\ b.at[j] = a.at[j] /\ b.at[j] # p
      BY <1>0, <1>2, <3>1 DEF PlaceAlike
    <3>3. b.at[j] \in 1..Len(output')
      BY <1>0, <3>2, AccountIs DEF Placing
    <3> QED
      BY <1>0, <3>2, <3>3 DEF ItemAt
  <2>2. BlockIs(a, j) /\ MapsAlike(j) /\ PlaceAlike(a, b, j)
    BY <1>0, <1>2 DEF Accounted
  <2> QED
    BY <1>1, <2>1, <2>2, BlockAlike
<1>3. ASSUME NEW n \in 1..Len(output'), n # p PROVE PlaceIs(b, n)'
  <2>1. n \in 1..Len(output) /\ output'[n] = output[n] /\ b.items[n] = a.items[n] /\ PlaceIs(a, n)
    BY <1>0, <1>3 DEF Accounted
  <2>2. Finished(b, n) => Finished(a, n)
    <3>1. SUFFICES ASSUME Finished(b, n), NEW j \in a.open PROVE a.at[j] # n
      BY DEF Finished
    <3>2. j \in Nat /\ j \in DOMAIN a.at
      BY <1>1, AccountIs DEF Placing
    <3>3. CASE j = i
      BY <1>0, <1>3, <3>2, <3>3
    <3>4. CASE j # i
      BY <1>0, <3>1, <3>2, <3>4 DEF PlaceAlike, Finished
    <3> QED
      BY <3>3, <3>4
  <2> QED
    BY <2>1, <2>2 DEF PlaceIs
<1>4. \A n \in 1..Len(output') : PlaceIs(b, n)'
  BY <1>0, <1>3
<1> QED
  BY <1>0, <1>2, <1>4 DEF Accounted

LEMMA MapsElsewhere ==
  ASSUME LoopTyped, Translate, NEW i, i = Event.index
  PROVE  \A j : j # i => MapsAlike(j)
<1> SUFFICES ASSUME NEW j, j # i PROVE MapsAlike(j)
  OBVIOUS
<1>0. /\ \A f, v : j \in DOMAIN With(f, i, v) <=> j \in DOMAIN f
      /\ \A f, v : j \in DOMAIN f => With(f, i, v)[j] = f[j]
      /\ \A f : j \in DOMAIN Without(f, i) <=> j \in DOMAIN f
      /\ \A f : j \in DOMAIN f => Without(f, i)[j] = f[j]
  BY DEF With, Without
<1>1. CASE ResponseBegins \/ ResponseEnds \/ Ignored
  BY <1>1 DEF ResponseBegins, ResponseEnds, Lifecycle, Ignored, maps, MapsAlike
<1>2. CASE StartReasoning
  BY <1>2, <1>0 DEF StartReasoning, MapsAlike
<1>3. CASE StartText
  BY <1>3, <1>0 DEF StartText, MapsAlike
<1>4. CASE StartToolUse
  BY <1>4, <1>0 DEF StartToolUse, MapsAlike
<1>5. CASE ReasoningDelta \/ TextDelta
  BY <1>5, <1>0 DEF ReasoningDelta, TextDelta, Grown, MapsAlike
<1>6. CASE FirstTextDelta
  BY <1>6, <1>0 DEF FirstTextDelta, Grown, MapsAlike
<1>7. CASE ToolCallArgsDelta
  BY <1>7, <1>0 DEF ToolCallArgsDelta, MapsAlike
<1>8. CASE ToolCallArgsDone
  BY <1>8, <1>0 DEF ToolCallArgsDone, FinishCall, MapsAlike
<1>9. CASE ReasoningDone
  BY <1>9, <1>0 DEF ReasoningDone, MapsAlike
<1>10. CASE TextBlockDone
  <2>1. PICK at : /\ contentText' = Without(contentText, i)
                  /\ outputIndexes' = With(outputIndexes, i, at)
                  /\ UNCHANGED <<toolCallArgs, reasonIndexes, toolCallFinalized>>
    BY <1>10 DEF TextBlockDone
  <2> QED
    BY <2>1, <1>0 DEF MapsAlike
<1>11. CASE ToolBlockDone
  BY <1>11, <1>0 DEF ToolBlockDone, FinishCall, MapsAlike
<1> QED
  BY <1>1, <1>2, <1>3, <1>4, <1>5, <1>6, <1>7, <1>8, <1>9, <1>10, <1>11 DEF Translate

\* Nothing becomes of an event.
LEMMA AccountedSame ==
  ASSUME NEW a, Accounted(a), UNCHANGED <<output, maps>>
  PROVE  Accounted(a)'
<1>1. /\ output' = output /\ contentText' = contentText /\ toolCallArgs' = toolCallArgs
      /\ outputIndexes' = outputIndexes /\ reasonIndexes' = reasonIndexes
      /\ toolCallFinalized' = toolCallFinalized
  BY DEF maps
<1>2. \A i \in Nat : BlockIs(a, i)' <=> BlockIs(a, i)
  BY <1>1 DEF BlockIs, KnownTo, Has
<1>3. \A n : PlaceIs(a, n)' <=> PlaceIs(a, n)
  BY <1>1 DEF PlaceIs
<1> QED
  BY <1>1, <1>2, <1>3 DEF Accounted

LEMMA PlacesElsewhere ==
  ASSUME NEW a \in Accounts, NEW b \in Accounts, NEW i,
         \/ b.at = a.at
         \/ /\ DOMAIN b.at = DOMAIN a.at \cup {i}
            /\ \A k \in DOMAIN a.at : k # i => b.at[k] = a.at[k],
         b.begun \in {a.begun, a.begun \cup {i}, a.begun \ {i}},
         b.open \in {a.open, a.open \cup {i}, a.open \ {i}}
  PROVE  AlikeBut(a, b, i)
  BY DEF AlikeBut, PlaceAlike

\* A text block begins.
LEMMA AccountedText ==
  ASSUME LoopTyped, core # <<>>, Translate, NEW a, Accounted(a), NEW i \in Nat, i = Event.index,
         Event.type = "block_started", ~ Known(a, i), Event.block = "text", NEW b, b = Begun(a, i)
  PROVE  Accounted(b)'
<1>1. StartText
  BY DEF Translate, ResponseBegins, ResponseEnds, Lifecycle, StartReasoning, StartToolUse, ReasoningDelta,
         FirstTextDelta, TextDelta, ToolCallArgsDelta, ToolCallArgsDone, ReasoningDone, TextBlockDone,
         ToolBlockDone, Ignored, Consume
<1>2. /\ contentText' = With(contentText, i, <<>>)
      /\ UNCHANGED <<output, toolCallArgs, outputIndexes, reasonIndexes, toolCallFinalized>>
  BY <1>1 DEF StartText
<1>3. /\ a \in Accounts /\ Len(output) = Len(a.items) /\ Len(output) \in Nat
      /\ i \notin DOMAIN a.at /\ i \notin a.begun /\ i \notin a.open
  BY AccountIs DEF Accounted, Known, Placing
<1>4. /\ b \in Accounts /\ b.items = a.items /\ b.at = a.at
      /\ b.begun = a.begun \cup {i} /\ b.open = a.open
  BY <1>3, BegunIs
<1>5. ~ KnownTo(i)
  BY DEF Accounted, BlockIs
<1>6. BlockIs(b, i)'
  BY <1>2, <1>3, <1>4, <1>5, WithIs DEF BlockIs, Known, KnownTo, Has
<1>7. AlikeBut(a, b, i)
  BY <1>3, <1>4, PlacesElsewhere
<1>8. \A n \in 1..Len(output') : output'[n] = output[n] /\ b.items[n] = a.items[n] /\ n \in 1..Len(output)
  BY <1>2, <1>4
<1>9. 0 \in Nat /\ ~ (0 \in 1..Len(output')) /\ Len(output') = Len(b.items)
      /\ \A j \in DOMAIN b.at : b.at[j] # 0
  BY <1>2, <1>3, <1>4, AccountIs DEF Placing
<1> QED
  <2>1. StepAbout(a, b, i, 0)
    BY <1>3, <1>4, <1>6, <1>7, <1>8, <1>9 DEF StepAbout
  <2>2. \A j : j # i => MapsAlike(j)
    BY MapsElsewhere
  <2> QED
    BY <1>4, <1>9, <2>1, <2>2, AccountedFrom

\* A block gets its item.
LEMMA AccountedNew ==
  ASSUME LoopTyped, core # <<>>, Translate, NEW a, Accounted(a), NEW i \in Nat, i = Event.index,
         i \notin DOMAIN a.at, NEW type \in ItemTypes, NEW text \in Pieces,
         NEW b, b = Opened(a, i, type, text),
         output' = Append(output, Item(type)), outputIndexes' = With(outputIndexes, i, Len(output)),
         i \in reasonIndexes' <=> type = "reasoning",
         i \in DOMAIN contentText' <=> type # "function_call",
         type # "function_call" => contentText'[i] = text,
         type = "function_call" =>
            i \notin toolCallFinalized' /\ i \notin DOMAIN toolCallArgs' /\ text = <<>>
  PROVE  Accounted(b)'
<1>1. /\ a \in Accounts /\ Len(output) = Len(a.items) /\ Len(output) \in Nat
  BY AccountIs DEF Accounted
<1>p. PICK p : p = Len(output) + 1
  OBVIOUS
<1>2. /\ DOMAIN outputIndexes' = DOMAIN outputIndexes \cup {i} /\ outputIndexes'[i] = Len(output)
      /\ Len(output') = p
      /\ \A n \in 1..Len(output) : output'[n] = output[n]
      /\ output'[p] = Item(type)
  BY <1>p, NewItem
<1>3. /\ b \in Accounts /\ Len(b.items) = p
      /\ \A n \in 1..Len(output) : b.items[n] = a.items[n]
      /\ b.items[p] = [type |-> type, text |-> text]
      /\ DOMAIN b.at = DOMAIN a.at \cup {i} /\ b.at[i] = p
      /\ \A j \in DOMAIN a.at : j # i => b.at[j] = a.at[j]
      /\ b.begun = a.begun \ {i} /\ b.open = a.open \cup {i}
  BY <1>1, <1>p, OpenedIs
<1>4. \A n \in 1..p : n # p => n \in 1..Len(output)
  BY <1>1, <1>p
<1>5. p \in Nat /\ p = outputIndexes'[i] + 1
  BY <1>1, <1>p, <1>2
<1>6. ItemAt(b, i) = [type |-> type, text |-> text] /\ (IsCall(b, i) <=> type = "function_call")
  BY <1>3 DEF ItemAt, IsCall
<1>7. BlockIs(b, i)'
  BY <1>2, <1>3, <1>5, <1>6 DEF BlockIs, Known, Has, Lookup
<1>8. PlaceIs(b, p)'
  <2>1. ~ Finished(b, p)
    BY <1>3 DEF Finished
  <2>2. Item(type).type = type
    BY ItemTyped
  <2> QED
    BY <1>2, <1>3, <2>1, <2>2 DEF PlaceIs
<1>9. AlikeBut(a, b, i)
  BY <1>1, <1>3, PlacesElsewhere
<1>10. \A j \in DOMAIN b.at : j # i => b.at[j] # p
  BY <1>p, <1>3, AccountIs DEF Placing
<1> QED
  <2>1. StepAbout(a, b, i, p)
    BY <1>2, <1>3, <1>4, <1>7, <1>8, <1>9, <1>10 DEF StepAbout
  <2>2. \A j : j # i => MapsAlike(j)
    BY MapsElsewhere
  <2> QED
    BY <1>3, <1>5, <2>1, <2>2, AccountedFrom

\* The text of an open item grows.
LEMMA AccountedGrown ==
  ASSUME LoopTyped, core # <<>>, Translate, NEW a, Accounted(a), NEW i \in Nat, i = Event.index,
         i \in a.open, NEW text \in Pieces, NEW b, b = Grew(a, i, text),
         output' = output, outputIndexes' = outputIndexes, reasonIndexes' = reasonIndexes,
         toolCallFinalized' = toolCallFinalized,
         IF IsCall(a, i) THEN contentText' = contentText /\ Lookup(toolCallArgs, i, <<>>)' = text
         ELSE i \in DOMAIN contentText' /\ contentText'[i] = text
  PROVE  Accounted(b)'
<1>1. /\ a \in Accounts /\ Len(output) = Len(a.items) /\ Len(output) \in Nat /\ i \in DOMAIN a.at
      /\ BlockIs(a, i)
  BY AccountIs DEF Accounted, Placing
<1> DEFINE p == a.at[i]
<1>2. /\ b \in Accounts
      /\ p \in 1..Len(a.items) /\ Len(b.items) = Len(a.items)
      /\ \A n \in 1..Len(a.items) : n # p => b.items[n] = a.items[n]
      /\ b.items[p] = [type |-> ItemAt(a, i).type, text |-> text]
      /\ b.at = a.at /\ b.begun = a.begun /\ b.open = a.open
  BY <1>1, GrewIs
<1>3. ItemAt(b, i).text = text /\ ItemAt(b, i).type = ItemAt(a, i).type /\ (IsCall(b, i) <=> IsCall(a, i))
  BY <1>2 DEF ItemAt, IsCall
<1>4. BlockIs(b, i)'
  <2>1. Known(b, i) /\ i \notin b.begun /\ i \in b.open
    BY <1>1, <1>2, AccountIs DEF Known, Placing
  <2> QED
    BY <1>1, <1>2, <1>3, <2>1 DEF BlockIs, Has
<1>5. PlaceIs(b, p)'
  <2>1. ~ Finished(b, p)
    BY <1>2 DEF Finished
  <2>2. output[p].type = a.items[p].type
    BY <1>1, <1>2 DEF Accounted, PlaceIs
  <2> QED
    BY <1>2, <2>1, <2>2 DEF PlaceIs, ItemAt
<1>6. AlikeBut(a, b, i)
  BY <1>1, <1>2, PlacesElsewhere
<1>7. \A j \in DOMAIN b.at : j # i => b.at[j] # p
  BY <1>1, <1>2, AccountIs DEF Placing
<1>8. p \in Nat
  BY <1>1, <1>2
<1>9. \A n \in 1..Len(output') : n # p => /\ n \in 1..Len(output) /\ output'[n] = output[n]
                                           /\ b.items[n] = a.items[n]
  BY <1>1, <1>2
<1> HIDE DEF p
<1> QED
  <2>1. StepAbout(a, b, i, p)
    BY <1>1, <1>2, <1>4, <1>5, <1>6, <1>7, <1>8, <1>9 DEF StepAbout, p
  <2>2. \A j : j # i => MapsAlike(j)
    BY MapsElsewhere
  <2> QED
    BY <1>2, <1>8, <2>1, <2>2, AccountedFrom

\* An open item is completed.
LEMMA AccountedDone ==
  ASSUME LoopTyped, core # <<>>, Translate, NEW a, Accounted(a), NEW i \in Nat, i = Event.index,
         i \in a.open, NEW text \in Pieces, NEW b \in Accounts,
         Len(b.items) = Len(a.items), \A n \in 1..Len(a.items) : n # a.at[i] => b.items[n] = a.items[n],
         ItemAt(b, i).type = ItemAt(a, i).type, ItemAt(b, i).text = text,
         b.at = a.at, b.begun = a.begun, b.open = a.open \ {i},
         output' = Completed(output, At(i), ItemAt(a, i).type, text),
         IsCall(a, i) => /\ outputIndexes' = outputIndexes
                         /\ contentText' = contentText /\ reasonIndexes' = reasonIndexes
                         /\ i \in toolCallFinalized'
  PROVE  Accounted(b)'
<1>1. /\ a \in Accounts /\ Len(output) = Len(a.items) /\ Len(output) \in Nat /\ i \in DOMAIN a.at
      /\ BlockIs(a, i) /\ Has(i) /\ outputIndexes[i] + 1 = a.at[i]
  BY AccountIs DEF Accounted, Placing, BlockIs
<1> DEFINE p == a.at[i]
           at == outputIndexes[i]
           type == ItemAt(a, i).type
<1>2. p \in 1..Len(output) /\ p \in Nat
  BY <1>1, AccountIs DEF Placing
<1>3. output[p].type = type
  BY <1>1, <1>2 DEF Accounted, PlaceIs, ItemAt
<1>4. /\ Len(output') = Len(output)
      /\ \A n \in 1..Len(output) : n # p => output'[n] = output[n]
      /\ output'[p].type = type /\ output'[p].status = "completed" /\ output'[p].text = text
  <2>0. Has(Event.index) /\ output' = Completed(output, At(Event.index), type, text)
    BY <1>1
  <2>1. /\ Len(output') = Len(output)
        /\ \A n \in 1..Len(output) : n # at + 1 => output'[n] = output[n]
        /\ \A n \in 1..Len(output) : output'[n].type = output[n].type
        /\ output'[at + 1].status = "completed"
        /\ output'[at + 1].text = IF output[at + 1].type = type THEN text ELSE output[at + 1].text
    <3>1. at = outputIndexes[Event.index]
      OBVIOUS
    <3> HIDE DEF at, type
    <3>2. LET there == outputIndexes[Event.index] IN
          /\ Len(output') = Len(output)
          /\ \A n \in 1..Len(output) : n # there + 1 => output'[n] = output[n]
          /\ \A n \in 1..Len(output) : output'[n].type = output[n].type
          /\ output'[there + 1].status = "completed"
          /\ output'[there + 1].text = IF output[there + 1].type = type THEN text ELSE output[there + 1].text
      BY ONLY <2>0, LoopTyped, core # <<>>, text \in Pieces, ItemDone
    <3> QED
      BY ONLY <3>1, <3>2
  <2>2. at + 1 = p
    BY <1>1
  <2> HIDE DEF at, p, type
  <2> QED
    BY ONLY <1>2, <1>3, <2>1, <2>2
<1>5. PlaceIs(b, p)'
  <2>1. b.items[p].type = type /\ b.items[p].text = text
    BY DEF ItemAt
  <2> HIDE DEF p, at, type
  <2> QED
    BY ONLY <1>4, <2>1 DEF PlaceIs
<1>6. BlockIs(b, i)'
  <2>1. Known(b, i) /\ i \notin b.begun /\ i \notin b.open /\ (IsCall(b, i) <=> IsCall(a, i))
    BY <1>1, AccountIs DEF Known, Placing, IsCall
  <2> QED
    BY <1>1, <2>1 DEF BlockIs, Has, IsCall
<1>7. AlikeBut(a, b, i)
  BY <1>1, PlacesElsewhere
<1>8. \A j \in DOMAIN b.at : j # i => b.at[j] # p
  BY <1>1, AccountIs DEF Placing
<1>9. \A n \in 1..Len(output') : n # p => /\ n \in 1..Len(output) /\ output'[n] = output[n]
                                           /\ b.items[n] = a.items[n]
  BY <1>1, <1>4
<1> HIDE DEF p, at, type
<1> QED
  <2>1. StepAbout(a, b, i, p)
    BY <1>1, <1>2, <1>4, <1>5, <1>6, <1>7, <1>8, <1>9 DEF StepAbout, p
  <2>2. \A j : j # i => MapsAlike(j)
    BY MapsElsewhere
  <2> QED
    BY <1>2, <1>8, <2>1, <2>2, AccountedFrom

\* Which of the steps an event's type leaves.
LEMMA StepsOf ==
  ASSUME Translate
  PROVE  /\ Event.type \in Plain => ResponseBegins \/ ResponseEnds \/ Ignored
         /\ Event.type = "block_started" =>
              IF Event.block = "text" THEN StartText
              ELSE IF Event.block = "reasoning" THEN StartReasoning ELSE StartToolUse
         /\ Event.type = "text_delta" =>
              IF Event.index \in reasonIndexes THEN ReasoningDelta
              ELSE IF Has(Event.index) THEN TextDelta ELSE FirstTextDelta
         /\ Event.type = "args_delta" => ToolCallArgsDelta
         /\ Event.type = "args_done" => ToolCallArgsDone
         /\ Event.type = "block_done" =>
              IF Event.index \in reasonIndexes THEN ReasoningDone
              ELSE IF Event.index \in DOMAIN contentText THEN TextBlockDone
              ELSE IF Has(Event.index) /\ Event.index \notin toolCallFinalized THEN ToolBlockDone
              ELSE Ignored
<1>1. \A type : Consume(type) => Event.type = type
  BY DEF Consume
<1>2. ResponseBegins \/ ResponseEnds => Event.type \in Plain \ {"item_added"}
  BY <1>1 DEF ResponseBegins, ResponseEnds, Lifecycle, Plain
<1>3. /\ StartReasoning => Event.type = "block_started" /\ Event.block = "reasoning"
      /\ StartText => Event.type = "block_started" /\ Event.block = "text"
      /\ StartToolUse => Event.type = "block_started" /\ Event.block = "tool_use"
  BY <1>1 DEF StartReasoning, StartText, StartToolUse
<1>4. /\ ReasoningDelta => Event.type = "text_delta" /\ Event.index \in reasonIndexes
      /\ FirstTextDelta => /\ Event.type = "text_delta" /\ Event.index \notin reasonIndexes
                           /\ ~ Has(Event.index)
      /\ TextDelta => /\ Event.type = "text_delta" /\ Event.index \notin reasonIndexes
                      /\ Has(Event.index)
  BY <1>1 DEF ReasoningDelta, FirstTextDelta, TextDelta, Has
<1>5. /\ ToolCallArgsDelta => Event.type = "args_delta"
      /\ ToolCallArgsDone => Event.type = "args_done"
  BY <1>1 DEF ToolCallArgsDelta, ToolCallArgsDone
<1>6. /\ ReasoningDone => Event.type = "block_done" /\ Event.index \in reasonIndexes
      /\ TextBlockDone => /\ Event.type = "block_done" /\ Event.index \notin reasonIndexes
                          /\ Event.index \in DOMAIN contentText
      /\ ToolBlockDone => /\ Event.type = "block_done" /\ Event.index \notin reasonIndexes
                          /\ Event.index \notin DOMAIN contentText
                          /\ Has(Event.index) /\ Event.index \notin toolCallFinalized
  BY <1>1 DEF ReasoningDone, TextBlockDone, ToolBlockDone, Has
<1>7. Ignored => \/ Event.type = "item_added"
                 \/ /\ Event.type = "block_done" /\ Event.index \notin reasonIndexes
                    /\ Event.index \notin DOMAIN contentText
                    /\ Has(Event.index) => Event.index \in toolCallFinalized
  BY <1>1 DEF Ignored, Has
<1> QED
  BY <1>2, <1>3, <1>4, <1>5, <1>6, <1>7 DEF Translate, Plain

LEMMA StartAccounted ==
  ASSUME LoopTyped, core # <<>>, Translate, NEW a, Accounted(a), NEW i \in Nat, i = Event.index,
         Event.type = "block_started", NEW b, Starts(a, i, Event.block, b)
  PROVE  Accounted(b)'
<1>1. ~ Known(a, i) /\ i \notin DOMAIN a.at /\ ~ KnownTo(i)
  BY DEF Starts, Known, Accounted, BlockIs
<1>2. CASE Event.block = "text"
  <2>1. b = Begun(a, i)
    BY <1>2 DEF Starts
  <2> QED
    BY <1>1, <1>2, <2>1, AccountedText
<1>3. CASE Event.block = "reasoning"
  <2>1. b = Opened(a, i, "reasoning", <<>>)
    BY <1>3 DEF Starts
  <2>2. StartReasoning
    BY <1>3, StepsOf
  <2>3. /\ output' = Append(output, Item("reasoning"))
        /\ outputIndexes' = With(outputIndexes, i, Len(output))
        /\ i \in reasonIndexes' /\ i \in DOMAIN contentText' /\ contentText'[i] = <<>>
    BY <2>2, WithIs DEF StartReasoning
  <2>4. "reasoning" \in ItemTypes /\ <<>> \in Pieces
    BY DEF ItemTypes, Pieces
  <2> QED
    BY <1>1, <2>1, <2>3, <2>4, AccountedNew
<1>4. CASE Event.block = "tool_use"
  <2>1. b = Opened(a, i, "function_call", <<>>)
    BY <1>4 DEF Starts
  <2>2. StartToolUse
    BY <1>4, StepsOf
  <2>3. /\ output' = Append(output, Item("function_call"))
        /\ outputIndexes' = With(outputIndexes, i, Len(output))
        /\ i \notin reasonIndexes' /\ i \notin DOMAIN contentText'
        /\ i \notin DOMAIN toolCallArgs' /\ i \notin toolCallFinalized'
    BY <1>1, <2>2 DEF StartToolUse, KnownTo
  <2>4. "function_call" \in ItemTypes /\ <<>> \in Pieces
    BY DEF ItemTypes, Pieces
  <2> QED
    BY <1>1, <2>1, <2>3, <2>4, AccountedNew
<1> QED
  BY <1>2, <1>3, <1>4 DEF Starts

LEMMA TextAccounted ==
  ASSUME LoopTyped, core # <<>>, Translate, NEW a, Accounted(a), NEW i \in Nat, i = Event.index,
         Event.type = "text_delta", NEW b, Adds(a, i, Event.delta, b)
  PROVE  Accounted(b)'
<1>1. /\ a \in Accounts /\ BlockIs(a, i) /\ Event.delta \in Pieces
  BY TextTyped DEF Accounted
<1>2. CASE i \in a.begun /\ b = Opened(a, i, "message", Event.delta)
  <2>1. i \in DOMAIN contentText /\ contentText[i] = <<>> /\ i \notin reasonIndexes /\ ~ Has(i)
    BY <1>1, <1>2 DEF BlockIs
  <2>2. FirstTextDelta
    BY <2>1, StepsOf
  <2>3. Text(i) \o Event.delta = Event.delta
    <3>1. Text(i) = <<>>
      BY <2>1 DEF Text, Lookup
    <3> QED
      BY <1>1, <3>1, ConcatEmptySeq DEF Pieces
  <2>4. /\ output' = Append(output, Item("message"))
        /\ outputIndexes' = With(outputIndexes, i, Len(output))
        /\ i \notin reasonIndexes' /\ i \in DOMAIN contentText' /\ contentText'[i] = Event.delta
    BY <2>1, <2>2, <2>3, WithIs DEF FirstTextDelta, Grown
  <2>5. "message" \in ItemTypes /\ i \notin DOMAIN a.at
    BY <1>1, <1>2, AccountIs DEF ItemTypes, Placing
  <2> QED
    BY <1>1, <1>2, <2>4, <2>5, AccountedNew
<1>3. CASE i \in a.open /\ ~ IsCall(a, i) /\ b = Grew(a, i, ItemAt(a, i).text \o Event.delta)
  <2>1. /\ Has(i) /\ i \in DOMAIN contentText /\ contentText[i] = ItemAt(a, i).text
    BY <1>1, <1>3 DEF BlockIs
  <2>2. ReasoningDelta \/ TextDelta
    BY <2>1, StepsOf
  <2>3. Text(i) = ItemAt(a, i).text /\ Text(i) \in Pieces
    BY <2>1, TextTyped DEF Text, Lookup
  <2>4. /\ output' = output /\ outputIndexes' = outputIndexes /\ reasonIndexes' = reasonIndexes
        /\ toolCallFinalized' = toolCallFinalized
        /\ contentText' = With(contentText, i, ItemAt(a, i).text \o Event.delta)
    BY <2>2, <2>3 DEF ReasoningDelta, TextDelta, Grown
  <2>5. ItemAt(a, i).text \o Event.delta \in Pieces
    BY <1>1, <2>3, ConcatProperties DEF Pieces
  <2>6. i \in DOMAIN contentText' /\ contentText'[i] = ItemAt(a, i).text \o Event.delta
    <3>1. PICK c : c = ItemAt(a, i).text \o Event.delta
      OBVIOUS
    <3>2. contentText' = With(contentText, i, c)
      BY <2>4, <3>1
    <3>3. i \in DOMAIN contentText' /\ contentText'[i] = c
      BY <3>2, WithIs
    <3> QED
      BY <3>1, <3>3
  <2> QED
    BY <1>3, <2>4, <2>5, <2>6, AccountedGrown
<1> QED
  BY <1>2, <1>3 DEF Adds

LEMMA ArgsAccounted ==
  ASSUME LoopTyped, core # <<>>, Translate, NEW a, Accounted(a), NEW i \in Nat, i = Event.index,
         Event.type = "args_delta", NEW b, AddsArgs(a, i, Event.delta, b)
  PROVE  Accounted(b)'
<1> DEFINE args == Lookup(toolCallArgs, i, <<>>)
           text == args \o Event.delta
<1>1. /\ BlockIs(a, i) /\ Event.delta \in Pieces /\ args \in Pieces
      /\ i \in a.open /\ IsCall(a, i) /\ b = Grew(a, i, ItemAt(a, i).text \o Event.delta)
  BY TextTyped DEF Accounted, AddsArgs
<1>2. ItemAt(a, i).text = args
  BY <1>1 DEF BlockIs
<1>3. ToolCallArgsDelta
  BY StepsOf
<1>4. /\ output' = output /\ outputIndexes' = outputIndexes /\ reasonIndexes' = reasonIndexes
      /\ toolCallFinalized' = toolCallFinalized /\ contentText' = contentText
      /\ toolCallArgs' = With(toolCallArgs, i, text)
  BY <1>3 DEF ToolCallArgsDelta
<1>5. PICK c \in Pieces : c = text
  BY <1>1, ConcatProperties DEF Pieces
<1>6. Lookup(toolCallArgs, i, <<>>)' = c
  <2>1. toolCallArgs' = With(toolCallArgs, i, c)
    BY <1>4, <1>5
  <2>2. i \in DOMAIN toolCallArgs' /\ toolCallArgs'[i] = c
    BY <2>1, WithIs
  <2> QED
    BY <2>2 DEF Lookup
<1>7. b = Grew(a, i, c)
  BY <1>1, <1>2, <1>5
<1> HIDE DEF args, text
<1> QED
  BY <1>1, <1>4, <1>6, <1>7, AccountedGrown

LEMMA ArgsDoneAccounted ==
  ASSUME LoopTyped, core # <<>>, Translate, NEW a, Accounted(a), NEW i \in Nat, i = Event.index,
         Event.type = "args_done", NEW b, EndsArgs(a, i, Event.delta, b)
  PROVE  Accounted(b)'
<1> DEFINE args == Lookup(toolCallArgs, i, <<>>)
<1>0. PICK text : text = Event.delta
  OBVIOUS
<1>1. /\ a \in Accounts /\ BlockIs(a, i) /\ text \in Pieces /\ args \in Pieces
      /\ EndsArgs(a, i, text, b)
  BY <1>0, TextTyped DEF Accounted
<1>2. /\ b \in Accounts /\ i \in a.open /\ IsCall(a, i)
      /\ Len(b.items) = Len(a.items)
      /\ \A n \in 1..Len(a.items) : n # a.at[i] => b.items[n] = a.items[n]
      /\ b.items[a.at[i]].type = "function_call"
      /\ b.items[a.at[i]].text = IF text = <<>> THEN ItemAt(a, i).text ELSE text
      /\ b.at = a.at /\ b.begun = a.begun /\ b.open = a.open \ {i}
  BY ONLY <1>1, EndsArgsIs
<1>3. ItemAt(a, i).text = args /\ i \notin toolCallFinalized /\ Has(i)
  BY <1>1, <1>2 DEF BlockIs
<1>4. ToolCallArgsDone
  BY StepsOf
<1>5. PICK c \in Pieces : c = IF text # <<>> THEN text ELSE args
  BY <1>1
<1>6. /\ output' = Completed(output, At(i), "function_call", c)
      /\ i \in toolCallFinalized'
      /\ outputIndexes' = outputIndexes /\ reasonIndexes' = reasonIndexes /\ contentText' = contentText
  BY <1>0, <1>3, <1>4, <1>5 DEF ToolCallArgsDone, FinishCall, Has
<1>7. ItemAt(b, i).text = c /\ ItemAt(b, i).type = ItemAt(a, i).type /\ ItemAt(a, i).type = "function_call"
  BY <1>2, <1>3, <1>5 DEF ItemAt, IsCall
<1> HIDE DEF args
<1> QED
  BY <1>2, <1>6, <1>7, AccountedDone

\* A text ends that had no delta.
LEMMA EmptyAccounted ==
  ASSUME LoopTyped, core # <<>>, Translate, NEW a, Accounted(a), NEW i \in Nat, i = Event.index,
         Event.type = "block_done", i \in a.begun, NEW b, b = Shut(Opened(a, i, "message", <<>>), i)
  PROVE  Accounted(b)'
<1>0. /\ a \in Accounts /\ Len(output) = Len(a.items) /\ Len(output) \in Nat /\ BlockIs(a, i)
      /\ output \in Seq(AnItem) /\ Event \in CoreEvent
  BY AccountIs, TextTyped DEF Accounted, LoopTyped
<1>1. PICK p : p = Len(output) + 1
  OBVIOUS
<1>2. i \in DOMAIN contentText /\ contentText[i] = <<>> /\ i \notin reasonIndexes /\ ~ Has(i) /\ Text(i) = <<>>
  BY <1>0 DEF BlockIs, Text, Lookup
<1>3. TextBlockDone
  BY <1>2, StepsOf
<1>4. PICK items : items = Append(output, Item("message"))
  OBVIOUS
<1>5. /\ outputIndexes' = With(outputIndexes, i, Len(output))
      /\ output' = Completed(items, Len(output), "message", <<>>)
      /\ contentText' = Without(contentText, i)
      /\ UNCHANGED <<toolCallArgs, reasonIndexes, toolCallFinalized>>
  BY <1>2, <1>3, <1>4 DEF TextBlockDone, Has
<1>6. /\ items \in Seq(AnItem) /\ Len(items) = p /\ items[p] = Item("message")
      /\ \A n \in 1..Len(output) : items[n] = output[n]
  <2>1. Item("message") \in AnItem
    BY ItemTyped DEF ItemTypes
  <2> QED
    BY <1>0, <1>1, <1>4, <2>1, Appended
<1>7. /\ Len(output') = p
      /\ \A n \in 1..Len(output) : output'[n] = output[n]
      /\ output'[p].type = "message" /\ output'[p].status = "completed" /\ output'[p].text = <<>>
  <2>1. Len(output) \in 0..(Len(items) - 1) /\ <<>> \in Pieces
    BY <1>0, <1>1, <1>6 DEF Pieces
  <2>2. /\ Len(output') = Len(items)
        /\ \A n \in 1..Len(items) : n # Len(output) + 1 => output'[n] = items[n]
        /\ output'[Len(output) + 1].type = items[Len(output) + 1].type
        /\ output'[Len(output) + 1].status = "completed"
        /\ output'[Len(output) + 1].text =
             IF items[Len(output) + 1].type = "message" THEN <<>> ELSE items[Len(output) + 1].text
    BY <1>0, <1>5, <1>6, <2>1, CompletedIs
  <2>3. \A n \in 1..Len(output) : n # Len(output) + 1 /\ n \in 1..Len(items)
    BY <1>0, <1>1, <1>6
  <2>4. items[p].type = "message"
    BY <1>6, ItemTyped DEF ItemTypes
  <2> QED
    BY <1>1, <1>6, <2>2, <2>3, <2>4
<1>8. /\ b \in Accounts /\ Len(b.items) = p
      /\ \A n \in 1..Len(output) : b.items[n] = a.items[n]
      /\ b.items[p].type = "message" /\ b.items[p].text = <<>>
      /\ DOMAIN b.at = DOMAIN a.at \cup {i} /\ b.at[i] = p
      /\ \A j \in DOMAIN a.at : j # i => b.at[j] = a.at[j]
      /\ b.begun = a.begun \ {i} /\ b.open = a.open \ {i}
  BY <1>0, <1>1, EndsTextIs
<1>9. BlockIs(b, i)'
  <2>1. Known(b, i) /\ i \notin b.begun /\ i \notin b.open /\ ~ IsCall(b, i)
    BY <1>8 DEF Known, IsCall, ItemAt
  <2> QED
    BY <2>1 DEF BlockIs
<1>10. PlaceIs(b, p)'
  BY <1>7, <1>8 DEF PlaceIs
<1>11. AlikeBut(a, b, i)
  BY <1>0, <1>8, PlacesElsewhere
<1>12. \A n \in 1..Len(output') : n # p => /\ n \in 1..Len(output) /\ output'[n] = output[n]
                                            /\ b.items[n] = a.items[n]
  BY <1>0, <1>1, <1>7, <1>8
<1>13. \A j \in DOMAIN b.at : j # i => b.at[j] # p
  BY <1>0, <1>1, <1>8, AccountIs DEF Placing
<1>14. i \notin DOMAIN a.at /\ p \in Nat
  BY <1>0, <1>1, AccountIs DEF Placing
<1>15. StepAbout(a, b, i, p)
  BY <1>7, <1>8, <1>9, <1>10, <1>11, <1>12, <1>13, <1>14 DEF StepAbout
<1>16. \A j : j # i => MapsAlike(j)
  BY MapsElsewhere
<1> QED
  BY <1>8, <1>14, <1>15, <1>16, AccountedFrom

LEMMA DoneAccounted ==
  ASSUME LoopTyped, core # <<>>, Translate, NEW a, Accounted(a), NEW i \in Nat, i = Event.index,
         Event.type = "block_done", NEW b, EndsBlock(a, i, b)
  PROVE  Accounted(b)'
<1>1. /\ a \in Accounts /\ BlockIs(a, i)
  BY DEF Accounted
<1>2. CASE i \in a.open /\ b = Shut(a, i)
  <2>1. /\ b \in Accounts /\ b.items = a.items /\ b.at = a.at /\ b.begun = a.begun /\ b.open = a.open \ {i}
    BY <1>1, <1>2, ShutIs
  <2>2. ItemAt(b, i) = ItemAt(a, i) /\ Has(i) /\ ItemAt(a, i).type \in ItemTypes
    BY <1>1, <1>2, <2>1, AccountIs DEF ItemAt, BlockIs, Placing
  <2>3. CASE ItemAt(a, i).type = "reasoning"
    <3>1. i \in reasonIndexes /\ i \in DOMAIN contentText /\ contentText[i] = ItemAt(a, i).text
      BY <1>1, <1>2, <2>3 DEF BlockIs, IsCall
    <3>2. ReasoningDone
      BY <3>1, StepsOf
    <3>3. PICK c \in Pieces : c = Text(i)
      BY TextTyped
    <3>4. c = ItemAt(a, i).text
      BY <3>1, <3>3 DEF Text, Lookup
    <3>5. output' = Completed(output, At(i), "reasoning", c)
      BY <2>2, <3>2, <3>3 DEF ReasoningDone, Has
    <3> QED
      BY <1>2, <2>1, <2>2, <2>3, <3>4, <3>5, AccountedDone DEF IsCall
  <2>4. CASE ItemAt(a, i).type = "message"
    <3>1. i \notin reasonIndexes /\ i \in DOMAIN contentText /\ contentText[i] = ItemAt(a, i).text
      BY <1>1, <1>2, <2>4 DEF BlockIs, IsCall
    <3>2. TextBlockDone
      BY <3>1, StepsOf
    <3>3. PICK c \in Pieces : c = Text(i)
      BY TextTyped
    <3>4. c = ItemAt(a, i).text
      BY <3>1, <3>3 DEF Text, Lookup
    <3>5. output' = Completed(output, At(i), "message", c)
      BY <2>2, <3>2, <3>3 DEF TextBlockDone, Has
    <3> QED
      BY <1>2, <2>1, <2>2, <2>4, <3>4, <3>5, AccountedDone DEF IsCall
  <2>5. CASE ItemAt(a, i).type = "function_call"
    <3>1. /\ i \notin reasonIndexes /\ i \notin DOMAIN contentText /\ i \notin toolCallFinalized
          /\ ItemAt(a, i).text = Lookup(toolCallArgs, i, <<>>)
      BY <1>1, <1>2, <2>5 DEF BlockIs, IsCall
    <3>2. ToolBlockDone
      BY <2>2, <3>1, StepsOf
    <3>3. PICK c \in Pieces : c = Lookup(toolCallArgs, i, <<>>)
      BY TextTyped
    <3>4. /\ output' = Completed(output, At(i), "function_call", c) /\ i \in toolCallFinalized'
          /\ outputIndexes' = outputIndexes /\ contentText' = contentText /\ reasonIndexes' = reasonIndexes
      BY <2>2, <3>2, <3>3 DEF ToolBlockDone, FinishCall, Has
    <3> QED
      BY <1>2, <2>1, <2>2, <2>5, <3>1, <3>3, <3>4, AccountedDone
  <2> QED
    BY <2>2, <2>3, <2>4, <2>5 DEF ItemTypes
<1>3. CASE i \in a.begun /\ b = Shut(Opened(a, i, "message", <<>>), i)
  BY <1>3, EmptyAccounted
<1>4. CASE ~ Known(a, i) /\ b = a
  <2>1. Ignored
    BY <1>1, <1>4, StepsOf DEF BlockIs, KnownTo
  <2> QED
    BY <1>4, <2>1, AccountedSame DEF Ignored
<1>5. CASE i \in DOMAIN a.at /\ i \notin a.open /\ IsCall(a, i) /\ b = a
  <2>1. Ignored
    BY <1>1, <1>5, StepsOf DEF BlockIs
  <2> QED
    BY <1>5, <2>1, AccountedSame DEF Ignored
<1> QED
  BY <1>2, <1>3, <1>4, <1>5 DEF EndsBlock

LEMMA AccountedOn ==
  ASSUME LoopTyped, core # <<>>, Translate, NEW a, Accounted(a), NEW b, Follows(a, Event, b)
  PROVE  Accounted(b)'
<1>1. PICK i \in Nat : i = Event.index
  BY TextTyped
<1>2. Event.type \in CoreTypes
  BY TextTyped DEF CoreEvent
<1>3. CASE Event.type \in Plain
  <2>1. b = a
    BY <1>3 DEF Follows
  <2>2. UNCHANGED <<output, maps>>
    BY <1>3, StepsOf DEF ResponseBegins, ResponseEnds, Lifecycle, Ignored
  <2> QED
    BY <2>1, <2>2, AccountedSame
<1>4. CASE Event.type = "block_started"
  BY <1>1, <1>4, StartAccounted DEF Follows
<1>5. CASE Event.type = "text_delta"
  BY <1>1, <1>5, TextAccounted DEF Follows
<1>6. CASE Event.type = "args_delta"
  BY <1>1, <1>6, ArgsAccounted DEF Follows
<1>7. CASE Event.type = "args_done"
  BY <1>1, <1>7, ArgsDoneAccounted DEF Follows
<1>8. CASE Event.type = "block_done"
  BY <1>1, <1>8, DoneAccounted DEF Follows
<1> QED
  BY <1>2, <1>3, <1>4, <1>5, <1>6, <1>7, <1>8 DEF CoreTypes, Plain

-----------------------------------------------------------------------------
(***************************************************************************)
(* An account of all the events of a queue.                                *)
(***************************************************************************)

RunsBy(h, a, queue, b) ==
    /\ h[0] = a /\ h[Len(queue)] = b
    /\ \A k \in 0..Len(queue) : h[k] \in Accounts
    /\ \A k \in 1..Len(queue) : Follows(h[k - 1], queue[k], h[k])

Runs(a, queue, b) == \E h : RunsBy(h, a, queue, b)

LEMMA RunsNone == ASSUME NEW a \in Accounts PROVE Runs(a, <<>>, a)
<1>1. RunsBy([k \in 0..0 |-> a], a, <<>>, a)
  BY DEF RunsBy
<1> QED
  BY <1>1 DEF Runs

LEMMA RunsOfNone == ASSUME NEW a, NEW b, Runs(a, <<>>, b) PROVE a = b /\ a \in Accounts
<1>1. Len(<<>>) = 0 /\ 0 \in 0..0
  OBVIOUS
<1> QED
  BY <1>1 DEF Runs, RunsBy

LEMMA RunsMore ==
  ASSUME NEW a, NEW queue \in Seq(CoreEvent), NEW b, Runs(a, queue, b),
         NEW e \in CoreEvent, NEW c, Follows(b, e, c)
  PROVE  Runs(a, Append(queue, e), c)
<1>1. PICK h : RunsBy(h, a, queue, b)
  BY DEF Runs
<1>2. PICK n \in Nat, q \in {Append(queue, e)} : n = Len(queue) /\ q = Append(queue, e)
  BY ElementsOf
<1>3. Len(q) = n + 1 /\ q[n + 1] = e /\ \A k \in 1..n : q[k] = queue[k]
  BY <1>2, Appended
<1>4. PICK g : g = [k \in 0..(n + 1) |-> IF k = n + 1 THEN c ELSE h[k]]
  OBVIOUS
<1>5. g[0] = h[0] /\ g[n + 1] = c /\ \A k \in 0..n : g[k] = h[k]
  BY <1>4
<1>6. /\ h[0] = a /\ h[n] = b
      /\ \A k \in 0..n : h[k] \in Accounts
      /\ \A k \in 1..n : Follows(h[k - 1], queue[k], h[k])
  BY <1>1, <1>2 DEF RunsBy
<1>7. n \in 0..n /\ (\A k \in 1..n : k - 1 \in 0..n /\ k \in 0..n)
      /\ (\A k \in 0..(n + 1) : k \in 0..n \/ k = n + 1)
      /\ (\A k \in 1..(n + 1) : k \in 1..n \/ k = n + 1) /\ (n + 1) - 1 = n
  OBVIOUS
<1>8. c \in Accounts
  BY <1>6, <1>7, FollowsTyped
<1>9. ASSUME NEW k \in 1..(n + 1) PROVE Follows(g[k - 1], q[k], g[k])
  <2>1. CASE k = n + 1
    BY <1>3, <1>5, <1>6, <1>7, <2>1
  <2>2. CASE k \in 1..n
    BY <1>3, <1>5, <1>6, <1>7, <2>2
  <2> QED
    BY <1>7, <2>1, <2>2
<1>10. \A k \in 0..(n + 1) : g[k] \in Accounts
  BY <1>5, <1>6, <1>7, <1>8
<1>11. RunsBy(g, a, q, c)
  BY <1>3, <1>5, <1>6, <1>9, <1>10 DEF RunsBy
<1> QED
  BY <1>2, <1>11 DEF Runs

LEMMA RunsTail ==
  ASSUME NEW a, NEW queue \in Seq(CoreEvent), queue # <<>>, NEW c, Runs(a, queue, c)
  PROVE  \E b : Follows(a, Head(queue), b) /\ Runs(b, Tail(queue), c)
<1>1. PICK h : RunsBy(h, a, queue, c)
  BY DEF Runs
<1>2. PICK n \in Nat, q \in {Tail(queue)} : n = Len(queue) - 1 /\ q = Tail(queue)
  <2>1. Len(queue) - 1 \in Nat
    OBVIOUS
  <2> QED
    BY <2>1
<1>3. Len(queue) = n + 1 /\ Len(q) = n /\ Head(queue) = queue[1] /\ \A k \in 1..n : q[k] = queue[k + 1]
  BY <1>2
<1>4. /\ h[0] = a /\ h[n + 1] = c
      /\ \A k \in 0..(n + 1) : h[k] \in Accounts
      /\ \A k \in 1..(n + 1) : Follows(h[k - 1], queue[k], h[k])
  BY <1>1, <1>3 DEF RunsBy
<1>5. PICK g : g = [k \in 0..n |-> h[k + 1]]
  OBVIOUS
<1>6. g[0] = h[1] /\ g[n] = h[n + 1] /\ \A k \in 0..n : g[k] = h[k + 1] /\ k + 1 \in 0..(n + 1)
  BY <1>5
<1>7. ASSUME NEW k \in 1..n PROVE Follows(g[k - 1], q[k], g[k])
  <2>1. k + 1 \in 1..(n + 1) /\ (k + 1) - 1 = k /\ (k - 1) + 1 = k /\ k - 1 \in 0..n /\ k \in 0..n
    OBVIOUS
  <2>2. g[k - 1] = h[k] /\ g[k] = h[k + 1] /\ q[k] = queue[k + 1]
    BY <1>3, <1>6, <2>1
  <2> QED
    BY <1>4, <2>1, <2>2
<1>8. RunsBy(g, h[1], q, c)
  BY <1>3, <1>4, <1>6, <1>7 DEF RunsBy
<1>9. 1 \in 1..(n + 1) /\ 1 - 1 = 0
  OBVIOUS
<1>10. Follows(a, Head(queue), h[1])
  BY <1>3, <1>4, <1>9
<1> QED
  BY <1>2, <1>8, <1>10 DEF Runs

LEMMA RunsOne ==
  ASSUME NEW a \in Accounts, NEW e \in CoreEvent, NEW b, Follows(a, e, b)
  PROVE  Runs(a, <<e>>, b)
<1>1. <<>> \in Seq(CoreEvent) /\ Append(<<>>, e) = <<e>>
  OBVIOUS
<1> QED
  BY <1>1, RunsNone, RunsMore

LEMMA Lengthened ==
  ASSUME NEW S, NEW d \in S, NEW e \in S, NEW f \in S
  PROVE  /\ <<d>> \in Seq(S) /\ <<d, e>> \in Seq(S)
         /\ <<d, e>> = Append(<<d>>, e) /\ <<d, e, f>> = Append(<<d, e>>, f)
  OBVIOUS

LEMMA RunsTwo ==
  ASSUME NEW a \in Accounts, NEW d \in CoreEvent, NEW e \in CoreEvent, NEW b, NEW c,
         Follows(a, d, b), Follows(b, e, c)
  PROVE  Runs(a, <<d, e>>, c)
<1>1. <<d>> \in Seq(CoreEvent) /\ <<d, e>> = Append(<<d>>, e)
  BY Lengthened
<1>2. Runs(a, <<d>>, b)
  BY RunsOne
<1> QED
  BY <1>1, <1>2, RunsMore

LEMMA RunsThree ==
  ASSUME NEW a \in Accounts, NEW d \in CoreEvent, NEW e \in CoreEvent, NEW f \in CoreEvent,
         NEW b, NEW c, NEW g, Follows(a, d, b), Follows(b, e, c), Follows(c, f, g)
  PROVE  Runs(a, <<d, e, f>>, g)
<1>1. <<d, e>> \in Seq(CoreEvent) /\ <<d, e, f>> = Append(<<d, e>>, f)
  BY Lengthened
<1>2. Runs(a, <<d, e>>, c)
  BY RunsTwo
<1> QED
  BY <1>1, <1>2, RunsMore

-----------------------------------------------------------------------------
(***************************************************************************)
(* What the items of an account have in them.                              *)
(***************************************************************************)

Items == Seq([type : ItemTypes, text : Pieces])
TextParts(items, type) ==
    [n \in 1..Len(items) |-> IF items[n].type = type THEN items[n].text ELSE <<>>]
Worth(items, type) == Flat(TextParts(items, type))
CallParts(items) ==
    [n \in 1..Len(items) |-> IF items[n].type = "function_call" THEN <<items[n].text>> ELSE <<>>]
CallList(items) == Flat(CallParts(items))

LEMMA PartsTyped ==
  ASSUME NEW items \in Items, NEW type
  PROVE  /\ TextParts(items, type) \in Seq(Seq(Nat)) /\ CallParts(items) \in Seq(Seq(Pieces))
         /\ Len(TextParts(items, type)) = Len(items) /\ Len(CallParts(items)) = Len(items)
         /\ Len(items) \in Nat
         /\ \A n \in 1..Len(items) : items[n].text \in Pieces /\ items[n].type \in ItemTypes
         /\ Worth(items, type) \in Pieces /\ CallList(items) \in Seq(Pieces)
<1>1. /\ Len(items) \in Nat
      /\ \A n \in 1..Len(items) : items[n] \in [type : ItemTypes, text : Pieces]
  BY ElementsOf DEF Items
<1>2. \A n \in 1..Len(items) : items[n].text \in Pieces /\ items[n].type \in ItemTypes
  BY <1>1
<1>3. <<>> \in Seq(Nat) /\ <<>> \in Seq(Pieces) /\ \A x \in Pieces : <<x>> \in Seq(Pieces)
  OBVIOUS
<1>4. /\ \A n \in 1..Len(items) : (IF items[n].type = type THEN items[n].text ELSE <<>>) \in Seq(Nat)
      /\ \A n \in 1..Len(items) :
           (IF items[n].type = "function_call" THEN <<items[n].text>> ELSE <<>>) \in Seq(Pieces)
  BY <1>2, <1>3 DEF Pieces
<1>5. TextParts(items, type) \in Seq(Seq(Nat)) /\ Len(TextParts(items, type)) = Len(items)
  BY <1>1, <1>4 DEF TextParts
<1>6. CallParts(items) \in Seq(Seq(Pieces)) /\ Len(CallParts(items)) = Len(items)
  BY <1>1, <1>4 DEF CallParts
<1>7. Worth(items, type) \in Pieces
  BY <1>5, FlatInSeq DEF Worth, Pieces
<1>8. CallList(items) \in Seq(Pieces)
  BY <1>6, FlatInSeq DEF CallList
<1> QED
  BY <1>1, <1>2, <1>5, <1>6, <1>7, <1>8

\* All but the last, and the last.
LEMMA FlatOfLast ==
  ASSUME NEW S, NEW s \in Seq(Seq(S)), NEW t \in Seq(Seq(S)), NEW m \in Nat,
         Len(s) = m + 1, Len(t) = m + 1, \A n \in 1..m : t[n] = s[n]
  PROVE  \E front \in Seq(S) : Flat(s) = front \o s[m + 1] /\ Flat(t) = front \o t[m + 1]
<1> DEFINE E == Seq(S)
           f == [n \in 1..m |-> s[n]]
<1>1. /\ \A n \in 1..(m + 1) : s[n] \in E /\ t[n] \in E
      /\ \A n \in 1..m : n \in 1..(m + 1)
      /\ m + 1 \in 1..(m + 1)
  BY ElementsOf
<1> HIDE DEF E
<1>2. f \in Seq(E) /\ Len(f) = m /\ \A n \in 1..m : f[n] = s[n]
  BY <1>1
<1> HIDE DEF f
<1>3. s = Append(f, s[m + 1])
  <2>1. s \in Seq(E) /\ Append(f, s[m + 1]) \in Seq(E)
    BY <1>1, <1>2 DEF E
  <2>2. PICK x \in E : x = s[m + 1]
    BY <1>1
  <2>3. Len(Append(f, x)) = m + 1 /\ Append(f, x)[m + 1] = x /\ \A n \in 1..m : Append(f, x)[n] = s[n]
    BY <1>2, Appended
  <2>4. \A n \in 1..(m + 1) : n \in 1..m \/ n = m + 1
    OBVIOUS
  <2> QED
    BY <2>1, <2>2, <2>3, <2>4, SameSequence
<1>4. t = Append(f, t[m + 1])
  <2>1. t \in Seq(E) /\ Append(f, t[m + 1]) \in Seq(E)
    BY <1>1, <1>2 DEF E
  <2>2. PICK x \in E : x = t[m + 1]
    BY <1>1
  <2>3. Len(Append(f, x)) = m + 1 /\ Append(f, x)[m + 1] = x /\ \A n \in 1..m : Append(f, x)[n] = t[n]
    BY <1>2, Appended
  <2>4. \A n \in 1..(m + 1) : n \in 1..m \/ n = m + 1
    OBVIOUS
  <2> QED
    BY <2>1, <2>2, <2>3, <2>4, SameSequence
<1>5. f \in Seq(Seq(S)) /\ s[m + 1] \in Seq(S) /\ t[m + 1] \in Seq(S)
  BY <1>1, <1>2 DEF E
<1>6. Flat(f) \in Seq(S)
  BY <1>5, FlatInSeq
<1>7. Flat(Append(f, s[m + 1])) = Flat(f) \o s[m + 1] /\ Flat(Append(f, t[m + 1])) = Flat(f) \o t[m + 1]
  BY <1>5, FlatAppended
<1> QED
  BY <1>3, <1>4, <1>6, <1>7

\* The texts, the reasoning and the calls of an account.
Sums(a, text, reasoning, calls) ==
    /\ Worth(a.items, "message") = text
    /\ Worth(a.items, "reasoning") = reasoning
    /\ CallList(a.items) = calls

\* What was added to a text, to the reasoning, or to the calls.
More(type, of, sum, text) == IF type = of THEN sum \o text ELSE sum

LEMMA WorthTyped ==
  ASSUME NEW a \in Accounts, NEW type
  PROVE  /\ Worth(a.items, type) \in Pieces /\ CallList(a.items) \in Seq(Pieces)
         /\ TextParts(a.items, type) \in Seq(Seq(Nat)) /\ Len(TextParts(a.items, type)) = Len(a.items)
         /\ CallParts(a.items) \in Seq(Seq(Pieces)) /\ Len(CallParts(a.items)) = Len(a.items)
  BY AccountIs, PartsTyped DEF Items

LEMMA WorthOpened ==
  ASSUME NEW a \in Accounts, NEW i \in Nat, i \notin DOMAIN a.at, NEW type \in ItemTypes,
         NEW text \in Pieces, NEW b, b = Opened(a, i, type, text), NEW of
  PROVE  Worth(b.items, of) = More(type, of, Worth(a.items, of), text)
<1> DEFINE s == TextParts(a.items, of)
           x == IF type = of THEN text ELSE <<>>
<1>1. /\ b \in Accounts /\ Len(a.items) \in Nat /\ Len(b.items) = Len(a.items) + 1
      /\ \A n \in 1..Len(a.items) : b.items[n] = a.items[n]
      /\ b.items[Len(a.items) + 1] = [type |-> type, text |-> text]
  BY OpenedIs
<1>2. s \in Seq(Seq(Nat)) /\ Len(s) = Len(a.items) /\ x \in Seq(Nat) /\ Worth(a.items, of) \in Seq(Nat)
  <2>1. x \in Seq(Nat)
    BY DEF Pieces
  <2>2. s \in Seq(Seq(Nat)) /\ Len(s) = Len(a.items) /\ Worth(a.items, of) \in Pieces
    BY WorthTyped
  <2> QED
    BY <2>1, <2>2 DEF Pieces
<1>3. TextParts(b.items, of) \in Seq(Seq(Nat)) /\ Len(TextParts(b.items, of)) = Len(a.items) + 1
  BY <1>1, AccountIs, PartsTyped DEF Items
<1>4. TextParts(b.items, of) = Append(s, x)
  <2>1. \A n \in 1..Len(a.items) : TextParts(b.items, of)[n] = s[n]
    BY <1>1 DEF TextParts
  <2>2. TextParts(b.items, of)[Len(a.items) + 1] = x
    BY <1>1 DEF TextParts
  <2> HIDE DEF s, x
  <2>3. /\ Append(s, x) \in Seq(Seq(Nat)) /\ Len(Append(s, x)) = Len(a.items) + 1
        /\ \A n \in 1..Len(a.items) : Append(s, x)[n] = s[n]
        /\ Append(s, x)[Len(a.items) + 1] = x
    BY <1>2, Appended
  <2>4. \A n \in 1..(Len(a.items) + 1) : n \in 1..Len(a.items) \/ n = Len(a.items) + 1
    BY <1>1
  <2> QED
    BY <1>3, <2>1, <2>2, <2>3, <2>4, SameSequence
<1> HIDE DEF s
<1>5. Worth(b.items, of) = Worth(a.items, of) \o x
  <2> HIDE DEF x
  <2> QED
    BY <1>2, <1>4, FlatAppended DEF Worth, s
<1> QED
  BY <1>2, <1>5, ConcatEmptySeq DEF More

LEMMA CallsOpened ==
  ASSUME NEW a \in Accounts, NEW i \in Nat, i \notin DOMAIN a.at, NEW type \in ItemTypes,
         NEW text \in Pieces, NEW b, b = Opened(a, i, type, text)
  PROVE  CallList(b.items) = More(type, "function_call", CallList(a.items), <<text>>)
<1> DEFINE s == CallParts(a.items)
           x == IF type = "function_call" THEN <<text>> ELSE <<>>
<1>1. /\ b \in Accounts /\ Len(a.items) \in Nat /\ Len(b.items) = Len(a.items) + 1
      /\ \A n \in 1..Len(a.items) : b.items[n] = a.items[n]
      /\ b.items[Len(a.items) + 1] = [type |-> type, text |-> text]
  BY OpenedIs
<1>2. s \in Seq(Seq(Pieces)) /\ Len(s) = Len(a.items) /\ x \in Seq(Pieces) /\ CallList(a.items) \in Seq(Pieces)
  <2>1. x \in Seq(Pieces)
    OBVIOUS
  <2>2. s \in Seq(Seq(Pieces)) /\ Len(s) = Len(a.items) /\ CallList(a.items) \in Seq(Pieces)
    BY WorthTyped
  <2> QED
    BY <2>1, <2>2
<1>3. CallParts(b.items) \in Seq(Seq(Pieces)) /\ Len(CallParts(b.items)) = Len(a.items) + 1
  BY <1>1, AccountIs, PartsTyped DEF Items
<1>4. CallParts(b.items) = Append(s, x)
  <2>1. \A n \in 1..Len(a.items) : CallParts(b.items)[n] = s[n]
    BY <1>1 DEF CallParts
  <2>2. CallParts(b.items)[Len(a.items) + 1] = x
    BY <1>1 DEF CallParts
  <2> HIDE DEF s, x
  <2>3. /\ Append(s, x) \in Seq(Seq(Pieces)) /\ Len(Append(s, x)) = Len(a.items) + 1
        /\ \A n \in 1..Len(a.items) : Append(s, x)[n] = s[n]
        /\ Append(s, x)[Len(a.items) + 1] = x
    BY <1>2, Appended
  <2>4. \A n \in 1..(Len(a.items) + 1) : n \in 1..Len(a.items) \/ n = Len(a.items) + 1
    BY <1>1
  <2> QED
    BY <1>3, <2>1, <2>2, <2>3, <2>4, SameSequence
<1> HIDE DEF s
<1>5. CallList(b.items) = CallList(a.items) \o x
  <2> HIDE DEF x
  <2> QED
    BY <1>2, <1>4, FlatAppended DEF CallList, s
<1> QED
  BY <1>2, <1>5, ConcatEmptySeq DEF More

LEMMA SumsOpened ==
  ASSUME NEW a \in Accounts, NEW i \in Nat, i \notin DOMAIN a.at, NEW type \in ItemTypes,
         NEW text \in Pieces, NEW b, b = Opened(a, i, type, text),
         NEW t, NEW r, NEW c, Sums(a, t, r, c)
  PROVE  Sums(b, More(type, "message", t, text), More(type, "reasoning", r, text),
              More(type, "function_call", c, <<text>>))
  BY WorthOpened, CallsOpened DEF Sums

\* The last item, whose block is open.
Current(a, i, type) ==
    /\ i \in a.open /\ a.at[i] = Len(a.items)
    /\ ItemAt(a, i).type = type

LEMMA CurrentIs ==
  ASSUME NEW a \in Accounts, NEW i, NEW type, Current(a, i, type)
  PROVE  /\ i \in a.open /\ i \in DOMAIN a.at /\ i \in Nat /\ ItemAt(a, i).type = type
         /\ ItemAt(a, i).text \in Pieces /\ type \in ItemTypes
         /\ Len(a.items) \in Nat /\ Len(a.items) # 0 /\ a.at[i] = Len(a.items)
         /\ ItemAt(a, i) = a.items[Len(a.items)]
<1>1. /\ i \in a.open /\ i \in DOMAIN a.at /\ a.at[i] = Len(a.items) /\ ItemAt(a, i).type = type
      /\ a.at[i] \in 1..Len(a.items)
  BY AccountIs DEF Current, Placing
<1> QED
  BY <1>1, AccountIs DEF ItemAt

LEMMA GrewCurrent ==
  ASSUME NEW a \in Accounts, NEW i, NEW type, Current(a, i, type), NEW text \in Pieces,
         NEW b, b = Grew(a, i, ItemAt(a, i).text \o text)
  PROVE  /\ b \in Accounts /\ Current(b, i, type)
         /\ Len(b.items) = Len(a.items)
         /\ b.at = a.at /\ b.begun = a.begun /\ b.open = a.open
         /\ \A n \in 1..Len(a.items) : n # Len(a.items) => b.items[n] = a.items[n]
         /\ \A n \in 1..Len(a.items) : b.items[n].type = a.items[n].type
         /\ ItemAt(b, i).text = ItemAt(a, i).text \o text
<1>1. /\ i \in a.open /\ i \in DOMAIN a.at /\ ItemAt(a, i).text \in Pieces /\ ItemAt(a, i).type = type
      /\ a.at[i] = Len(a.items) /\ Len(a.items) \in Nat
      /\ ItemAt(a, i) = a.items[Len(a.items)]
  BY CurrentIs
<1>2. PICK x \in Pieces : x = ItemAt(a, i).text \o text
  BY <1>1, ConcatProperties DEF Pieces
<1>3. /\ b \in Accounts /\ Len(b.items) = Len(a.items)
      /\ \A n \in 1..Len(a.items) : n # a.at[i] => b.items[n] = a.items[n]
      /\ b.items[a.at[i]] = [type |-> ItemAt(a, i).type, text |-> x]
      /\ b.at = a.at /\ b.begun = a.begun /\ b.open = a.open
  <2>1. b = Grew(a, i, x)
    BY <1>2
  <2> QED
    BY <1>1, <2>1, GrewIs
<1>4. ItemAt(b, i) = [type |-> type, text |-> x]
  BY <1>1, <1>3 DEF ItemAt
<1>5. Current(b, i, type)
  BY <1>1, <1>3, <1>4 DEF Current
<1>6. \A n \in 1..Len(a.items) : b.items[n].type = a.items[n].type
  BY <1>1, <1>3
<1>7. ItemAt(b, i).text = x
  BY <1>4
<1>8. ItemAt(b, i).text = ItemAt(a, i).text \o text
  BY <1>2, <1>7
<1>9. \A n \in 1..Len(a.items) : n # Len(a.items) => b.items[n] = a.items[n]
  BY <1>1, <1>3
<1> QED
  BY <1>3, <1>5, <1>6, <1>8, <1>9

LEMMA WorthGrown ==
  ASSUME NEW a \in Accounts, NEW i, NEW type, Current(a, i, type), NEW text \in Pieces,
         NEW b, b = Grew(a, i, ItemAt(a, i).text \o text), NEW of
  PROVE  Worth(b.items, of) = More(type, of, Worth(a.items, of), text)
<1>1. /\ b \in Accounts /\ Current(b, i, type) /\ Len(b.items) = Len(a.items)
      /\ \A n \in 1..Len(a.items) : n # Len(a.items) => b.items[n] = a.items[n]
      /\ \A n \in 1..Len(a.items) : b.items[n].type = a.items[n].type
      /\ ItemAt(b, i).text = ItemAt(a, i).text \o text
  BY GrewCurrent
<1>2. PICK m \in Nat : Len(a.items) = m + 1
  <2>1. Len(a.items) \in Nat /\ Len(a.items) # 0
    BY CurrentIs
  <2>2. Len(a.items) - 1 \in Nat /\ Len(a.items) = (Len(a.items) - 1) + 1
    BY <2>1
  <2> QED
    BY <2>2
<1> DEFINE s == TextParts(a.items, of)
           t == TextParts(b.items, of)
<1>3. /\ s \in Seq(Seq(Nat)) /\ Len(s) = m + 1
      /\ t \in Seq(Seq(Nat)) /\ Len(t) = m + 1
  BY <1>1, <1>2, AccountIs, PartsTyped DEF Items
<1>4. \A n \in 1..m : t[n] = s[n]
  BY <1>1, <1>2 DEF TextParts
<1>5. /\ a.items[m + 1] = ItemAt(a, i) /\ a.items[m + 1].type = type /\ b.items[m + 1].type = type
      /\ b.items[m + 1].text = a.items[m + 1].text \o text /\ a.items[m + 1].text \in Seq(Nat)
  <2>1. /\ ItemAt(a, i) = a.items[m + 1] /\ ItemAt(a, i).text \in Pieces /\ ItemAt(a, i).type = type
    BY <1>2, CurrentIs
  <2>2. ItemAt(b, i) = b.items[m + 1] /\ ItemAt(b, i).type = type
    BY <1>1, <1>2, CurrentIs
  <2> QED
    BY <1>1, <2>1, <2>2 DEF Pieces
<1>6. /\ s[m + 1] = IF type = of THEN a.items[m + 1].text ELSE <<>>
      /\ t[m + 1] = IF type = of THEN a.items[m + 1].text \o text ELSE <<>>
  <2>1. m + 1 \in 1..(m + 1)
    OBVIOUS
  <2> QED
    BY <1>1, <1>2, <1>5, <2>1 DEF TextParts
<1> HIDE DEF s, t
<1>7. PICK front \in Seq(Nat) : Flat(s) = front \o s[m + 1] /\ Flat(t) = front \o t[m + 1]
  BY <1>3, <1>4, FlatOfLast
<1>8. CASE type = of
  <2>1. PICK x \in Seq(Nat) : x = a.items[m + 1].text
    BY <1>5
  <2>2. Flat(s) = front \o x /\ Flat(t) = front \o (x \o text)
    BY <1>6, <1>7, <1>8, <2>1
  <2>3. (front \o x) \o text = front \o (x \o text)
    <3>1. text \in Seq(Nat)
      BY DEF Pieces
    <3> QED
      BY <3>1, ConcatAssociative
  <2> QED
    BY <1>8, <2>2, <2>3 DEF More, Worth, s, t
<1>9. CASE type # of
  BY <1>6, <1>7, <1>9 DEF More, Worth, s, t
<1> QED
  BY <1>8, <1>9

\* Calls of which the last got more arguments.
LastGrown(c, text, d) ==
    /\ Len(c) \in Nat \ {0} /\ Len(d) = Len(c)
    /\ d[Len(c)] = c[Len(c)] \o text
    /\ \A k \in 1..Len(c) : k # Len(c) => d[k] = c[k]

LEMMA LastGrownIs ==
  ASSUME NEW c \in Seq(Pieces), NEW text, NEW d \in Seq(Pieces), LastGrown(c, text, d),
         NEW e \in Seq(Pieces), LastGrown(c, text, e)
  PROVE  d = e
<1>1. Len(d) = Len(c) /\ Len(e) = Len(c) /\ Len(c) \in Nat /\ d[Len(c)] = e[Len(c)]
  BY DEF LastGrown
<1>2. \A k \in 1..Len(c) : k # Len(c) => d[k] = e[k]
  BY DEF LastGrown
<1>3. \A k \in 1..Len(c) : d[k] = e[k]
  BY <1>1, <1>2
<1> QED
  BY <1>1, <1>3, SameSequence

LEMMA LastChanged ==
  ASSUME NEW front \in Seq(Pieces), NEW x \in Pieces, NEW text \in Pieces, NEW y \in Pieces,
         y = x \o text, NEW c, NEW d, c = front \o <<x>>, d = front \o <<y>>
  PROVE  LastGrown(c, text, d)
<1>1. c = Append(front, x) /\ d = Append(front, y)
  BY AppendIsConcat
<1>2. Len(front) \in Nat
  BY ElementsOf
<1>3. PICK m \in Nat : m = Len(front)
  BY <1>2
<1>4. /\ Len(c) = m + 1 /\ c[m + 1] = x
      /\ \A n \in 1..m : c[n] = front[n]
      /\ Len(d) = m + 1 /\ d[m + 1] = y
      /\ \A n \in 1..m : d[n] = front[n]
  BY <1>1, <1>3, Appended
<1>5. \A n \in 1..(m + 1) : n \in 1..m \/ n = m + 1
  OBVIOUS
<1>6. m + 1 \in Nat \ {0}
  OBVIOUS
<1>7. d[m + 1] = c[m + 1] \o text
  BY <1>4
<1>8. \A k \in 1..(m + 1) : k # m + 1 => d[k] = c[k]
  BY <1>4, <1>5
<1> QED
  BY <1>4, <1>6, <1>7, <1>8 DEF LastGrown

LEMMA CallsGrown ==
  ASSUME NEW a \in Accounts, NEW i, NEW type, Current(a, i, type), NEW text \in Pieces,
         NEW b, b = Grew(a, i, ItemAt(a, i).text \o text)
  PROVE  /\ type # "function_call" => CallList(b.items) = CallList(a.items)
         /\ type = "function_call" =>
              LastGrown(CallList(a.items), text, CallList(b.items))
<1>1. /\ b \in Accounts /\ Current(b, i, type) /\ Len(b.items) = Len(a.items)
      /\ \A n \in 1..Len(a.items) : n # Len(a.items) => b.items[n] = a.items[n]
      /\ \A n \in 1..Len(a.items) : b.items[n].type = a.items[n].type
      /\ ItemAt(b, i).text = ItemAt(a, i).text \o text
  BY GrewCurrent
<1>2. PICK m \in Nat : Len(a.items) = m + 1
  <2>1. Len(a.items) \in Nat /\ Len(a.items) # 0
    BY CurrentIs
  <2>2. Len(a.items) - 1 \in Nat /\ Len(a.items) = (Len(a.items) - 1) + 1
    BY <2>1
  <2> QED
    BY <2>2
<1> DEFINE s == CallParts(a.items)
           t == CallParts(b.items)
<1>3. /\ s \in Seq(Seq(Pieces)) /\ Len(s) = m + 1
      /\ t \in Seq(Seq(Pieces)) /\ Len(t) = m + 1
  BY <1>1, <1>2, WorthTyped
<1>4. \A n \in 1..m : t[n] = s[n]
  BY <1>1, <1>2 DEF CallParts
<1>5. PICK x \in Pieces : x = ItemAt(a, i).text
  BY CurrentIs
<1>6. PICK y \in Pieces : y = x \o text
  BY ConcatProperties DEF Pieces
<1>7. /\ a.items[m + 1].text = x /\ a.items[m + 1].type = type /\ b.items[m + 1].type = type
      /\ b.items[m + 1].text = y
  <2>1. ItemAt(a, i) = a.items[m + 1] /\ ItemAt(a, i).type = type
    BY <1>2, CurrentIs
  <2>2. ItemAt(b, i) = b.items[m + 1] /\ ItemAt(b, i).type = type
    BY <1>1, <1>2, CurrentIs
  <2> QED
    BY <1>1, <1>5, <1>6, <2>1, <2>2
<1>8. /\ s[m + 1] = IF type = "function_call" THEN <<x>> ELSE <<>>
      /\ t[m + 1] = IF type = "function_call" THEN <<y>> ELSE <<>>
  <2>1. m + 1 \in 1..(m + 1)
    OBVIOUS
  <2> QED
    BY <1>1, <1>2, <1>7, <2>1 DEF CallParts
<1> HIDE DEF s, t
<1>9. PICK front \in Seq(Pieces) : Flat(s) = front \o s[m + 1] /\ Flat(t) = front \o t[m + 1]
  BY <1>3, <1>4, FlatOfLast
<1>10. CASE type = "function_call"
  <2>1. PICK c, d : c = front \o <<x>> /\ d = front \o <<y>>
    OBVIOUS
  <2>2. LastGrown(c, text, d)
    BY <1>6, <2>1, LastChanged
  <2>3. c = CallList(a.items) /\ d = CallList(b.items)
    BY <1>8, <1>9, <1>10, <2>1 DEF CallList, s, t
  <2> QED
    BY <1>10, <2>2, <2>3
<1>11. CASE type # "function_call"
  BY <1>8, <1>9, <1>11 DEF CallList, s, t
<1> QED
  BY <1>10, <1>11

LEMMA SumsGrown ==
  ASSUME NEW a \in Accounts, NEW i, NEW type, Current(a, i, type), NEW text \in Pieces,
         NEW b, b = Grew(a, i, ItemAt(a, i).text \o text),
         NEW t, NEW r, NEW c, Sums(a, t, r, c)
  PROVE  /\ type # "function_call" =>
              Sums(b, More(type, "message", t, text), More(type, "reasoning", r, text), c)
         /\ type = "function_call" =>
              \E d \in Seq(Pieces) : LastGrown(c, text, d) /\ Sums(b, t, r, d)
<1>1. /\ Worth(b.items, "message") = More(type, "message", t, text)
      /\ Worth(b.items, "reasoning") = More(type, "reasoning", r, text)
  BY WorthGrown DEF Sums
<1>2. c = CallList(a.items)
  BY DEF Sums
<1>3. CallList(b.items) \in Seq(Pieces)
  BY GrewCurrent, WorthTyped
<1>4. /\ type # "function_call" => CallList(b.items) = c
      /\ type = "function_call" => LastGrown(c, text, CallList(b.items))
  BY <1>2, CallsGrown
<1> QED
  BY <1>1, <1>3, <1>4 DEF Sums, More

LEMMA SumsSame ==
  ASSUME NEW a, NEW b, b.items = a.items
  PROVE  \A t, r, c : Sums(b, t, r, c) <=> Sums(a, t, r, c)
  BY DEF Sums

LEMMA SumsTyped ==
  ASSUME NEW a \in Accounts, NEW t, NEW r, NEW c, Sums(a, t, r, c)
  PROVE  t \in Pieces /\ r \in Pieces /\ c \in Seq(Pieces)
  BY WorthTyped DEF Sums

LEMMA OpenedAt ==
  ASSUME NEW a \in Accounts, NEW i \in Nat, i \notin DOMAIN a.at, NEW type \in ItemTypes,
         NEW text \in Pieces, NEW b, b = Opened(a, i, type, text)
  PROVE  /\ b \in Accounts /\ DOMAIN b.at = DOMAIN a.at \cup {i}
         /\ b.begun = a.begun \ {i} /\ b.open = a.open \cup {i}
<1>1. /\ b \in Accounts /\ b.at = With(a.at, i, Len(a.items) + 1)
      /\ b.begun = a.begun \ {i} /\ b.open = a.open \cup {i}
  <2>1. b \in Accounts
    BY OpenedIs
  <2> QED
    BY <2>1 DEF Opened
<1> QED
  BY <1>1 DEF With

LEMMA NewIsCurrent ==
  ASSUME NEW a \in Accounts, NEW i \in Nat, i \notin DOMAIN a.at, NEW type \in ItemTypes,
         NEW text \in Pieces, NEW b, b = Opened(a, i, type, text)
  PROVE  Current(b, i, type) /\ ItemAt(b, i).text = text
<1>1. /\ Len(b.items) = Len(a.items) + 1 /\ b.at[i] = Len(a.items) + 1 /\ i \in b.open
      /\ b.items[Len(a.items) + 1] = [type |-> type, text |-> text]
  BY OpenedIs
<1> QED
  BY <1>1 DEF Current, ItemAt

\* A new item adds its text to what is of its type.
LEMMA SumsOfNew ==
  ASSUME NEW a \in Accounts, NEW i \in Nat, i \notin DOMAIN a.at,
         NEW text \in Pieces, NEW type \in ItemTypes, NEW b, b = Opened(a, i, type, text),
         NEW t, NEW r, NEW c, Sums(a, t, r, c)
  PROVE  /\ type = "message" => Sums(b, t \o text, r, c)
         /\ type = "reasoning" => Sums(b, t, r \o text, c)
         /\ type = "function_call" => Sums(b, t, r, Append(c, text))
<1>1. c \in Seq(Pieces)
  BY SumsTyped
<1>2. c \o <<text>> = Append(c, text)
  BY <1>1, AppendIsConcat
<1>3. Sums(b, More(type, "message", t, text), More(type, "reasoning", r, text),
           More(type, "function_call", c, <<text>>))
  BY SumsOpened
<1> QED
  BY <1>2, <1>3 DEF More

\* One without a text adds nothing, unless it is a call.
LEMMA SumsOfEmpty ==
  ASSUME NEW a \in Accounts, NEW i \in Nat, i \notin DOMAIN a.at,
         NEW type \in {"message", "reasoning"}, NEW b, b = Opened(a, i, type, <<>>),
         NEW t, NEW r, NEW c, Sums(a, t, r, c)
  PROVE  Sums(b, t, r, c)
<1>1. t \in Seq(Nat) /\ r \in Seq(Nat) /\ <<>> \in Pieces
  BY SumsTyped DEF Pieces
<1>2. t \o <<>> = t /\ r \o <<>> = r
  BY <1>1, ConcatEmptySeq
<1>3. type \in ItemTypes
  BY DEF ItemTypes
<1>4. /\ type = "message" => Sums(b, t \o <<>>, r, c)
      /\ type = "reasoning" => Sums(b, t, r \o <<>>, c)
  BY <1>1, <1>3, SumsOfNew
<1> QED
  BY <1>2, <1>4

-----------------------------------------------------------------------------
(***************************************************************************)
(* What the account will be when the queue is empty, for each protocol, if *)
(* the stream is in the usual order: all that was given is in its items,   *)
(* and the block the provider is in is the one it is about to go on with.  *)
(***************************************************************************)

Blank == [items |-> <<>>, at |-> <<>>, begun |-> {}, open |-> {}]

Forwarded == {"text", "thinking", "tool_use"}

AnthropicAt(a, i, block, suppressed) ==
    /\ \A j : Known(a, j) => j < i \/ (j = i /\ block \in Forwarded)
    /\ block \notin Forwarded => a.open = {}
    /\ block # "text" => suppressed = {}
    /\ block = "text" =>
         \/ i \in a.begun /\ a.open = {} /\ suppressed \subseteq {i}
         \/ /\ a.open = {i} /\ Current(a, i, "message") /\ ItemAt(a, i).text # <<>>
            /\ suppressed = {}
    /\ block = "thinking" => a.open = {i} /\ Current(a, i, "reasoning")
    /\ block = "tool_use" => a.open = {i} /\ Current(a, i, "function_call")

LEMMA BlankIs ==
  /\ Blank \in Accounts /\ \A j : ~ Known(Blank, j) /\ Blank.open = {}
  /\ Sums(Blank, <<>>, <<>>, <<>>)
<1>1. Blank \in Account
  <2>1. <<>> \in [1..0 -> Nat] /\ 1..0 \in SUBSET Nat
    OBVIOUS
  <2>2. <<>> \in Partial(Nat)
    BY <2>1 DEF Partial
  <2>3. <<>> \in Seq([type : ItemTypes, text : Pieces])
    OBVIOUS
  <2> QED
    BY <2>2, <2>3 DEF Blank, Account
<1>2. Blank.items = <<>> /\ Blank.at = <<>> /\ DOMAIN Blank.at = {} /\ Blank.begun = {} /\ Blank.open = {}
  BY DEF Blank
<1>3. Blank \in Accounts
  BY <1>1, <1>2 DEF Accounts, Placing
<1>4. \A j : ~ Known(Blank, j)
  BY <1>2 DEF Known
<1>5. PICK s : s = Blank.items
  OBVIOUS
<1>6. Len(s) = 0
  BY <1>2, <1>5
<1>7. Flat(<<>>) = <<>>
  BY Len(<<>>) = 0, FlatSteps
<1>8. /\ \A type : TextParts(s, type) = <<>>
      /\ CallParts(s) = <<>>
  BY <1>6 DEF TextParts, CallParts
<1>9. Sums(Blank, <<>>, <<>>, <<>>)
  BY <1>5, <1>7, <1>8 DEF Sums, Worth, CallList
<1> QED
  BY <1>2, <1>3, <1>4, <1>9

\* A block starts.
LEMMA AnthropicBegins ==
  ASSUME NEW a \in Accounts, NEW i \in Nat, NEW block, block \notin Forwarded,
         NEW s, AnthropicAt(a, i, block, s), ~ Known(a, i),
         NEW kind \in BlockKinds, NEW t, NEW r, NEW c, Sums(a, t, r, c)
  PROVE  \E b \in Accounts :
            /\ kind = "text" => Starts(a, i, "text", b)
            /\ kind = "thinking" => Starts(a, i, "reasoning", b)
            /\ kind = "tool_use" => Starts(a, i, "tool_use", b)
            /\ kind \notin Forwarded => b = a
            /\ AnthropicAt(b, i, kind, {})
            /\ Sums(b, t, r, IF kind = "tool_use" THEN Append(c, <<>>) ELSE c)
<1>1. /\ i \notin DOMAIN a.at /\ i \notin a.begun /\ a.open = {}
      /\ \A j : Known(a, j) => j < i
  BY DEF AnthropicAt, Known
<1>2. <<>> \in Pieces /\ {"message", "reasoning", "function_call"} \subseteq ItemTypes
  BY DEF Pieces, ItemTypes
<1>3. CASE kind = "text"
  <2>1. PICK b : b = Begun(a, i)
    OBVIOUS
  <2>2. /\ b \in Accounts /\ b.items = a.items /\ b.at = a.at
        /\ b.begun = a.begun \cup {i} /\ b.open = a.open
    BY <1>1, <2>1, BegunIs
  <2>3. Starts(a, i, "text", b)
    BY <2>1 DEF Starts
  <2>4. \A j : Known(b, j) => Known(a, j) \/ j = i
    BY <2>2 DEF Known
  <2>5. AnthropicAt(b, i, kind, {})
    BY <1>1, <1>3, <2>2, <2>4 DEF AnthropicAt, Forwarded
  <2>6. Sums(b, t, r, c)
    BY <2>2, SumsSame
  <2> QED
    BY <1>3, <2>2, <2>3, <2>5, <2>6 DEF Forwarded
<1>4. CASE kind \in {"thinking", "tool_use"}
  <2>1. PICK type \in {"reasoning", "function_call"} :
          type = IF kind = "thinking" THEN "reasoning" ELSE "function_call"
    OBVIOUS
  <2>2. PICK b : b = Opened(a, i, type, <<>>)
    OBVIOUS
  <2>3. type \in ItemTypes
    BY <1>2
  <2>4. /\ b \in Accounts /\ DOMAIN b.at = DOMAIN a.at \cup {i}
        /\ b.begun = a.begun \ {i} /\ b.open = a.open \cup {i}
    BY <1>1, <1>2, <2>2, <2>3, OpenedAt
  <2>5. Current(b, i, type)
    BY <1>1, <1>2, <2>2, <2>3, NewIsCurrent
  <2>6. /\ kind = "thinking" => Starts(a, i, "reasoning", b)
        /\ kind = "tool_use" => Starts(a, i, "tool_use", b)
    BY <2>1, <2>2 DEF Starts
  <2>7. \A j : Known(b, j) => Known(a, j) \/ j = i
    BY <2>4 DEF Known
  <2>8. AnthropicAt(b, i, kind, {})
    BY <1>1, <1>4, <2>1, <2>4, <2>5, <2>7 DEF AnthropicAt, Forwarded
  <2>9. Sums(b, t, r, IF kind = "tool_use" THEN Append(c, <<>>) ELSE c)
    <3>1. CASE kind = "thinking"
      BY <1>1, <2>1, <2>2, <3>1, SumsOfEmpty
    <3>2. CASE kind = "tool_use"
      BY <1>1, <1>2, <2>1, <2>2, <3>2, SumsOfNew
    <3> QED
      BY <1>4, <3>1, <3>2
  <2> QED
    BY <1>4, <2>4, <2>6, <2>8, <2>9 DEF Forwarded
<1>5. CASE kind \notin Forwarded
  <2>1. AnthropicAt(a, i, kind, {})
    BY <1>1, <1>5 DEF AnthropicAt, Forwarded
  <2> QED
    BY <1>5, <2>1 DEF Forwarded
<1> QED
  BY <1>3, <1>4, <1>5 DEF Forwarded

\* What ends in a delta: a text, a piece of reasoning, arguments.
LEMMA AnthropicAdds ==
  ASSUME NEW a \in Accounts, NEW i \in Nat, NEW kind \in {"text", "thinking"},
         AnthropicAt(a, i, kind, {}), NEW text \in Pieces, kind = "text" => text # <<>>,
         NEW t, NEW r, NEW c, Sums(a, t, r, c)
  PROVE  \E b \in Accounts :
            /\ Adds(a, i, text, b) /\ AnthropicAt(b, i, kind, {})
            /\ kind = "text" => Sums(b, t \o text, r, c)
            /\ kind = "thinking" => Sums(b, t, r \o text, c)
<1>1. {"message", "reasoning", "function_call"} \subseteq ItemTypes
  BY DEF ItemTypes
<1>2. CASE kind = "text" /\ i \in a.begun /\ a.open = {}
  <2>1. PICK b : b = Opened(a, i, "message", text)
    OBVIOUS
  <2>2. i \notin DOMAIN a.at
    BY <1>2, AccountIs DEF Placing
  <2>3. /\ b \in Accounts /\ DOMAIN b.at = DOMAIN a.at \cup {i}
        /\ b.begun = a.begun \ {i} /\ b.open = a.open \cup {i}
    BY <1>1, <2>1, <2>2, OpenedAt
  <2>4. Current(b, i, "message") /\ ItemAt(b, i).text = text
    BY <1>1, <2>1, <2>2, NewIsCurrent
  <2>5. Adds(a, i, text, b)
    BY <1>2, <2>1 DEF Adds
  <2>6. \A j : Known(b, j) => Known(a, j) \/ j = i
    BY <2>3 DEF Known
  <2>7. AnthropicAt(b, i, kind, {})
    BY <1>2, <2>3, <2>4, <2>6 DEF AnthropicAt, Forwarded
  <2>8. Sums(b, t \o text, r, c)
    BY <1>1, <2>1, <2>2, SumsOfNew
  <2> QED
    BY <1>2, <2>3, <2>5, <2>7, <2>8
<1>3. CASE \/ kind = "text" /\ a.open = {i} /\ Current(a, i, "message")
           \/ kind = "thinking" /\ a.open = {i} /\ Current(a, i, "reasoning")
  <2>1. PICK type \in {"message", "reasoning"} :
          type = (IF kind = "text" THEN "message" ELSE "reasoning") /\ Current(a, i, type)
    BY <1>3
  <2>2. PICK b : b = Grew(a, i, ItemAt(a, i).text \o text)
    OBVIOUS
  <2>3. /\ b \in Accounts /\ Current(b, i, type) /\ b.at = a.at /\ b.begun = a.begun /\ b.open = a.open
        /\ ItemAt(b, i).text = ItemAt(a, i).text \o text
    BY <2>1, <2>2, GrewCurrent
  <2>4. Adds(a, i, text, b)
    <3>1. i \in a.open /\ ItemAt(a, i).type = type
      BY <2>1, CurrentIs
    <3> QED
      BY <2>1, <2>2, <3>1 DEF Adds, IsCall
  <2>5. kind = "text" => ItemAt(b, i).text # <<>>
    <3>1. ItemAt(a, i).text \in Seq(Nat) /\ text \in Seq(Nat)
      BY <2>1, CurrentIs DEF Pieces
    <3>2. kind = "text" => Len(text) > 0
      BY <3>1
    <3>3. kind = "text" => Len(ItemAt(a, i).text \o text) > 0
      BY <3>1, <3>2, ConcatProperties
    <3> QED
      BY <2>3, <3>3
  <2>6. \A j : Known(b, j) => Known(a, j)
    BY <2>3 DEF Known
  <2>7. AnthropicAt(b, i, kind, {})
    BY <1>3, <2>1, <2>3, <2>5, <2>6 DEF AnthropicAt, Forwarded
  <2>8. Sums(b, More(type, "message", t, text), More(type, "reasoning", r, text), c)
    BY <2>1, <2>2, SumsGrown
  <2> QED
    BY <2>1, <2>3, <2>4, <2>7, <2>8 DEF More
<1> QED
  BY <1>2, <1>3 DEF AnthropicAt

LEMMA AnthropicAddsArgs ==
  ASSUME NEW a \in Accounts, NEW i \in Nat, AnthropicAt(a, i, "tool_use", {}), NEW text \in Pieces,
         NEW t, NEW r, NEW c, Sums(a, t, r, c)
  PROVE  \E b \in Accounts :
            /\ AddsArgs(a, i, text, b) /\ AnthropicAt(b, i, "tool_use", {})
            /\ \E d \in Seq(Pieces) : LastGrown(c, text, d) /\ Sums(b, t, r, d)
<1>1. a.open = {i} /\ Current(a, i, "function_call")
  BY DEF AnthropicAt
<1>2. PICK b : b = Grew(a, i, ItemAt(a, i).text \o text)
  OBVIOUS
<1>3. /\ b \in Accounts /\ Current(b, i, "function_call") /\ b.at = a.at /\ b.begun = a.begun /\ b.open = a.open
  BY <1>1, <1>2, GrewCurrent
<1>4. AddsArgs(a, i, text, b)
  BY <1>1, <1>2, CurrentIs DEF AddsArgs, IsCall
<1>5. \A j : Known(b, j) => Known(a, j)
  BY <1>3 DEF Known
<1>6. AnthropicAt(b, i, "tool_use", {})
  BY <1>1, <1>3, <1>5 DEF AnthropicAt
<1>7. \E d \in Seq(Pieces) : LastGrown(c, text, d) /\ Sums(b, t, r, d)
  BY <1>1, <1>2, SumsGrown
<1> QED
  BY <1>3, <1>4, <1>6, <1>7

\* A block ends, or its end is suppressed.
LEMMA AnthropicEnds ==
  ASSUME NEW a \in Accounts, NEW i \in Nat, NEW kind \in BlockKinds, NEW s, AnthropicAt(a, i, kind, s),
         NEW t, NEW r, NEW c, Sums(a, t, r, c)
  PROVE  /\ i \in s => AnthropicAt(a, i + 1, "none", s \ {i})
         /\ i \notin s =>
              \E b \in Accounts :
                 EndsBlock(a, i, b) /\ AnthropicAt(b, i + 1, "none", s) /\ Sums(b, t, r, c)
<1>1. {"message", "reasoning", "function_call"} \subseteq ItemTypes /\ <<>> \in Pieces
      /\ "none" \notin Forwarded
  BY DEF ItemTypes, Pieces, Forwarded
<1>2. s \subseteq {i} /\ \A j \in Nat : j < i \/ j = i => j < i + 1
  BY DEF AnthropicAt
<1>3. \A j : Known(a, j) => j \in Nat /\ j < i + 1
  BY <1>2, AccountIs DEF AnthropicAt, Known
<1>4. CASE i \in s
  <2>1. a.open = {}
    BY <1>4 DEF AnthropicAt
  <2> QED
    BY <1>1, <1>2, <1>3, <1>4, <2>1 DEF AnthropicAt
<1>5. CASE i \notin s
  <2>0. s = {}
    BY <1>2, <1>5
  <2>1. CASE a.open = {i} /\ i \in DOMAIN a.at
    <3>1. PICK b : b = Shut(a, i)
      OBVIOUS
    <3>2. b \in Accounts /\ b.items = a.items /\ b.at = a.at /\ b.begun = a.begun /\ b.open = {}
      BY <2>1, <3>1, ShutIs
    <3>3. AnthropicAt(b, i + 1, "none", s)
      BY <1>1, <1>3, <2>0, <3>2 DEF AnthropicAt, Known
    <3>4. EndsBlock(a, i, b)
      BY <2>1, <3>1 DEF EndsBlock
    <3> QED
      BY <1>5, <3>2, <3>3, <3>4, SumsSame
  <2>2. CASE i \in a.begun /\ a.open = {}
    <3>1. PICK m, b : m = Opened(a, i, "message", <<>>) /\ b = Shut(m, i)
      OBVIOUS
    <3>2. i \notin DOMAIN a.at
      BY <2>2, AccountIs DEF Placing
    <3>3. m \in Accounts /\ DOMAIN m.at = DOMAIN a.at \cup {i} /\ m.begun = a.begun \ {i} /\ m.open = {i}
      BY <1>1, <2>2, <3>1, <3>2, OpenedAt
    <3>4. b \in Accounts /\ b.items = m.items /\ b.at = m.at /\ b.begun = m.begun /\ b.open = {}
      BY <3>1, <3>3, ShutIs
    <3>5. \A j : Known(b, j) => Known(a, j) \/ j = i
      BY <3>3, <3>4 DEF Known
    <3>6. i < i + 1
      OBVIOUS
    <3>7. AnthropicAt(b, i + 1, "none", s)
      BY <1>1, <1>3, <2>0, <3>4, <3>5, <3>6 DEF AnthropicAt
    <3>8. EndsBlock(a, i, b)
      BY <2>2, <3>1 DEF EndsBlock
    <3>9. Sums(m, t, r, c)
      BY <3>1, <3>2, SumsOfEmpty
    <3> QED
      BY <1>5, <3>4, <3>7, <3>8, <3>9, SumsSame
  <2>3. CASE a.open = {} /\ ~ Known(a, i)
    <3>1. AnthropicAt(a, i + 1, "none", s)
      BY <1>1, <1>3, <2>0, <2>3 DEF AnthropicAt
    <3>2. EndsBlock(a, i, a)
      BY <2>3 DEF EndsBlock
    <3> QED
      BY <1>5, <3>1, <3>2
  <2>4. kind \notin Forwarded => a.open = {} /\ ~ Known(a, i)
    <3>1. ~ (i < i)
      OBVIOUS
    <3> QED
      BY <3>1 DEF AnthropicAt
  <2> QED
    BY <2>1, <2>2, <2>3, <2>4, AccountIs DEF AnthropicAt, Forwarded, Placing
<1> QED
  BY <1>4, <1>5

-----------------------------------------------------------------------------
(***************************************************************************)
(* The events of the adapters and what they do to an account.              *)
(***************************************************************************)

LEMMA FollowsPlain ==
  ASSUME NEW a, NEW type \in Plain
  PROVE  Core(type) \in CoreEvent /\ Follows(a, Core(type), a)
<1>1. Core(type) \in CoreEvent /\ Core(type).type = type
  BY EventsTyped DEF Plain, CoreTypes
<1> QED
  BY <1>1 DEF Follows, Plain

LEMMA FollowsStart ==
  ASSUME NEW a, NEW i \in Nat, NEW kind \in {"text", "reasoning", "tool_use"}, NEW b, Starts(a, i, kind, b)
  PROVE  BlockStarted(i, kind) \in CoreEvent /\ Follows(a, BlockStarted(i, kind), b)
<1>1. PICK e : e = BlockStarted(i, kind)
  OBVIOUS
<1>2. e.type = "block_started" /\ e.index = i /\ e.block = kind
  BY <1>1 DEF BlockStarted, Core
<1>3. Follows(a, e, b)
  BY <1>2 DEF Follows, Plain
<1> QED
  BY <1>1, <1>3, EventsTyped

LEMMA DeltaIs ==
  ASSUME NEW type \in {"text_delta", "args_delta", "args_done"}, NEW i \in Nat, NEW text \in Pieces
  PROVE  /\ Delta(type, i, text) \in CoreEvent /\ Delta(type, i, text).type = type
         /\ Delta(type, i, text).index = i /\ Delta(type, i, text).delta = text
<1>1. /\ Delta(type, i, text).type = type
      /\ Delta(type, i, text).index = i /\ Delta(type, i, text).delta = text
  BY DEF Delta, Core
<1> QED
  BY <1>1, EventsTyped

LEMMA FollowsText ==
  ASSUME NEW a, NEW i \in Nat, NEW text \in Pieces, NEW b, Adds(a, i, text, b)
  PROVE  Delta("text_delta", i, text) \in CoreEvent /\ Follows(a, Delta("text_delta", i, text), b)
  BY DeltaIs DEF Follows, Plain

LEMMA FollowsArgs ==
  ASSUME NEW a, NEW i \in Nat, NEW text \in Pieces, NEW b, AddsArgs(a, i, text, b)
  PROVE  Delta("args_delta", i, text) \in CoreEvent /\ Follows(a, Delta("args_delta", i, text), b)
  BY DeltaIs DEF Follows, Plain

LEMMA FollowsArgsDone ==
  ASSUME NEW a, NEW i \in Nat, NEW text \in Pieces, NEW b, EndsArgs(a, i, text, b)
  PROVE  Delta("args_done", i, text) \in CoreEvent /\ Follows(a, Delta("args_done", i, text), b)
  BY DeltaIs DEF Follows, Plain

LEMMA FollowsDone ==
  ASSUME NEW a, NEW i \in Nat, NEW b, EndsBlock(a, i, b)
  PROVE  \A e \in {BlockDone(i), SignedBlockDone(i)} : e \in CoreEvent /\ Follows(a, e, b)
<1> SUFFICES ASSUME NEW e \in {BlockDone(i), SignedBlockDone(i)} PROVE e \in CoreEvent /\ Follows(a, e, b)
  OBVIOUS
<1>1. e.type = "block_done" /\ e.index = i
  BY DEF BlockDone, SignedBlockDone, Core
<1>2. Follows(a, e, b)
  BY <1>1 DEF Follows, Plain
<1> QED
  BY <1>2, EventsTyped

-----------------------------------------------------------------------------
(***************************************************************************)
(* What was given.                                                         *)
(***************************************************************************)

LEMMA GivenSame ==
  ASSUME GivenTyped, given' = given \/ given' = [given EXCEPT !.signed = @ \cup {provider.index}]
  PROVE  given'.text = given.text /\ given'.reasoning = given.reasoning /\ given'.calls = given.calls
  BY DEF GivenTyped

LEMMA GivenText ==
  ASSUME GivenTyped, Gave("text")
  PROVE  /\ given'.text = given.text \o Piece /\ given'.reasoning = given.reasoning
         /\ given'.calls = given.calls
  BY DEF GivenTyped, Gave

LEMMA GivenReasoning ==
  ASSUME GivenTyped,
         \/ Gave("reasoning")
         \/ given' = [given EXCEPT !.reasoning = @ \o Piece, !.signed = @ \cup {provider.index}]
  PROVE  /\ given'.text = given.text /\ given'.reasoning = given.reasoning \o Piece
         /\ given'.calls = given.calls
  BY DEF GivenTyped, Gave

LEMMA GivenCall ==
  ASSUME GivenTyped, NEW text, given' = [given EXCEPT !.calls = Append(@, text)]
  PROVE  /\ given'.text = given.text /\ given'.reasoning = given.reasoning
         /\ given'.calls = Append(given.calls, text)
  BY DEF GivenTyped

LEMMA GivenArgs ==
  ASSUME GivenTyped, provider \in Provider, NEW n \in 1..Len(given.calls), GaveCall(n)
  PROVE  /\ given'.text = given.text /\ given'.reasoning = given.reasoning
         /\ given'.calls \in Seq(Pieces) /\ Len(given'.calls) = Len(given.calls)
         /\ given'.calls[n] = given.calls[n] \o Piece
         /\ \A k \in 1..Len(given.calls) : k # n => given'.calls[k] = given.calls[k]
<1>1. PICK c \in Seq(Pieces) : c = given.calls
  BY DEF GivenTyped
<1>2. n \in Nat /\ GivenTyped'
  BY GaveCallTyped
<1>3. PICK d : d = [c EXCEPT ![n] = @ \o Piece]
  OBVIOUS
<1>4. given' = [given EXCEPT !.calls = d]
  BY <1>1, <1>3 DEF GaveCall
<1>5. given'.calls = d /\ given'.text = given.text /\ given'.reasoning = given.reasoning
  BY <1>4 DEF GivenTyped
<1>6. d \in Seq(Pieces)
  BY <1>2, <1>5 DEF GivenTyped
<1>7. DOMAIN d = DOMAIN c /\ DOMAIN d = 1..Len(d) /\ DOMAIN c = 1..Len(c)
  BY <1>3, <1>6
<1>8. Len(d) = Len(c)
  <2>1. PICK l \in Nat, m \in Nat : l = Len(d) /\ m = Len(c)
    BY <1>6, ElementsOf
  <2>2. 1..l = 1..m
    BY <1>7, <2>1
  <2>3. l \in 1..l \/ l = 0
    OBVIOUS
  <2>4. m \in 1..m \/ m = 0
    OBVIOUS
  <2>5. l <= m /\ m <= l
    BY <2>2, <2>3, <2>4
  <2> QED
    BY <2>1, <2>5
<1>9. d[n] = c[n] \o Piece /\ \A k \in 1..Len(c) : k # n => d[k] = c[k]
  BY <1>1, <1>3, <1>7
<1> QED
  BY <1>1, <1>5, <1>6, <1>8, <1>9

LEMMA GivenLast ==
  ASSUME GivenTyped, provider \in Provider, GaveCall(Len(given.calls)),
         NEW d \in Seq(Pieces), LastGrown(given.calls, Piece, d)
  PROVE  given'.text = given.text /\ given'.reasoning = given.reasoning /\ given'.calls = d
<1>1. given.calls \in Seq(Pieces)
  BY DEF GivenTyped
<1>2. PICK n \in 1..Len(given.calls) : n = Len(given.calls)
  BY DEF LastGrown
<1>3. GaveCall(n)
  BY <1>2
<1>4. /\ given'.text = given.text /\ given'.reasoning = given.reasoning
      /\ given'.calls \in Seq(Pieces) /\ Len(given'.calls) = Len(given.calls)
      /\ given'.calls[n] = given.calls[n] \o Piece
      /\ \A k \in 1..Len(given.calls) : k # n => given'.calls[k] = given.calls[k]
  BY <1>3, GivenArgs
<1>5. LastGrown(given.calls, Piece, given'.calls)
  BY <1>2, <1>4 DEF LastGrown
<1> QED
  BY <1>1, <1>4, <1>5, LastGrownIs

-----------------------------------------------------------------------------
(***************************************************************************)
(* The steps of the providers.                                             *)
(***************************************************************************)

GoogleOpen(a) ==
    \/ 0 \in a.begun /\ a.open = {}
    \/ a.open = {0} /\ Current(a, 0, "message")
GoogleAt(a, prev, text) == prev = text /\ GoogleOpen(a)

WholeAt(a, i) == a.open = {} /\ \A j : Known(a, j) => j < i

\* The calls are the blocks after the current one and the last items, one for each
\* call that was given. No block is behind them.
SlotsAt(st, b, n) ==
    /\ DOMAIN st.toolCallSlot = 0..(n - 1) /\ \A p \in 0..(n - 1) : st.toolCallSlot[p] = b + 1 + p
    /\ st.callStarted = (b + 1)..(b + n)
    /\ st.toolCallIdx = IF n = 0 THEN 0 ELSE b + 1 + n
CallsAt(a, b, calls, m) ==
    /\ Len(a.items) = m + Len(calls)
    /\ \A k \in 1..m : a.items[k].type # "function_call"
    /\ \A k \in 1..Len(calls) : /\ a.items[m + k] = [type |-> "function_call", text |-> calls[k]]
                               /\ a.at[b + k] = m + k
ChatBlockAt(a, b, n, block, reasons) ==
    /\ \A j : Known(a, j) => j <= b + n
    /\ block \in {"none", "thinking", "text", "tool_use"}
    /\ block # "tool_use" => n = 0
    /\ \/ b \in a.begun
       \/ b \in a.open /\ ~ IsCall(a, b)
    /\ a.open = ({b} \ a.begun) \cup ((b + 1)..(b + n))
    /\ block = "none" => ~ reasons /\ b \in a.begun
    /\ block = "thinking" => reasons /\ Current(a, b, "reasoning")
    /\ block = "text" => ~ reasons /\ Current(a, b, "message")
ChatAt(a, st, block, calls) ==
    /\ SlotsAt(st, st.blockIndex, Len(calls))
    /\ \E m \in Nat : CallsAt(a, st.blockIndex, calls, m)
    /\ ChatBlockAt(a, st.blockIndex, Len(calls), block, st.hasReasoning)

Rest(a) ==
    provider.phase # "broken" =>
        /\ Sums(a, given.text, given.reasoning, given.calls)
        /\ provider.phase = "start" =>
             /\ a = Blank
             /\ protocol = "anthropic" => conv.suppressText = {}
             /\ protocol = "google" => conv.prevText = given.text
        /\ provider.phase \in {"stopped", "closed"} => a.open = {}
        /\ provider.phase = "open" =>
             /\ protocol = "anthropic" =>
                  AnthropicAt(a, provider.index, provider.block, conv.suppressText)
             /\ protocol = "google" => GoogleAt(a, conv.prevText, given.text)
             /\ protocol \in Whole => WholeAt(a, provider.index)
             /\ protocol = "chat" => ChatAt(a, conv, provider.block, given.calls)

Goes(a) == \E b : Runs(a, core', b) /\ Rest(b)'

\* What was given and what it makes.
LEMMA AnthropicRest ==
  ASSUME protocol' = "anthropic", provider'.phase = "open", NEW b,
         Sums(b, given'.text, given'.reasoning, given'.calls),
         AnthropicAt(b, provider'.index, provider'.block, conv'.suppressText)
  PROVE  Rest(b)'
  BY DEF Rest, Whole

LEMMA BlockStartGoes ==
  ASSUME ContentBlockStart, ProviderTyped, NEW a \in Accounts, Rest(a)
  PROVE  Goes(a)
<1>1. provider \in Provider /\ ConvTyped /\ GivenTyped
  BY DEF ProviderTyped
<1>2. PICK i \in Nat : i = provider.index
  BY <1>1, ProviderFields
<1>3. PICK kind \in BlockKinds :
        /\ Sends("open", kind, i, 0)
        /\ conv' = [conv EXCEPT !.blockTypes = With(@, i, kind)]
        /\ core' = Announced(kind, i)
        /\ given' = IF kind = "tool_use" THEN [given EXCEPT !.calls = Append(@, <<>>)] ELSE given
  BY <1>2 DEF ContentBlockStart
<1>4. protocol = "anthropic" /\ protocol' = "anthropic" /\ provider.phase = "open" /\ provider.block = "none"
  BY DEF ContentBlockStart, Ready, Quiet
<1>5. provider'.phase = "open" /\ provider'.block = kind /\ provider'.index = i
  BY <1>1, <1>3, SendsTo
<1>6. PICK s, t, r, c : s = conv.suppressText /\ t = given.text /\ r = given.reasoning /\ c = given.calls
  OBVIOUS
<1>7. Sums(a, t, r, c) /\ AnthropicAt(a, i, "none", s)
  BY <1>2, <1>4, <1>6 DEF Rest
<1>8. s = {} /\ ~ Known(a, i) /\ "none" \notin Forwarded
  <2>1. ~ (i < i)
    OBVIOUS
  <2> QED
    BY <1>7, <2>1 DEF AnthropicAt, Forwarded
<1>9. conv'.suppressText = {}
  BY <1>1, <1>3, <1>4, <1>6, <1>8 DEF ConvTyped
<1>10. PICK b \in Accounts :
            /\ kind = "text" => Starts(a, i, "text", b)
            /\ kind = "thinking" => Starts(a, i, "reasoning", b)
            /\ kind = "tool_use" => Starts(a, i, "tool_use", b)
            /\ kind \notin Forwarded => b = a
            /\ AnthropicAt(b, i, kind, {})
            /\ Sums(b, t, r, IF kind = "tool_use" THEN Append(c, <<>>) ELSE c)
  BY <1>7, <1>8, AnthropicBegins
<1>11. Runs(a, core', b)
  <2>1. CASE kind = "text"
    BY <1>3, <1>10, <2>1, FollowsStart, RunsOne DEF Announced
  <2>2. CASE kind = "thinking"
    BY <1>3, <1>10, <2>2, FollowsStart, RunsOne DEF Announced
  <2>3. CASE kind = "tool_use"
    <3>1. core' = <<BlockStarted(i, "tool_use"), Core("item_added")>>
      BY <1>3, <2>3 DEF Announced
    <3>2. /\ BlockStarted(i, "tool_use") \in CoreEvent /\ Follows(a, BlockStarted(i, "tool_use"), b)
          /\ Core("item_added") \in CoreEvent /\ Follows(b, Core("item_added"), b)
      BY <1>10, <2>3, FollowsStart, FollowsPlain DEF Plain
    <3> QED
      BY <3>1, <3>2, RunsTwo
  <2>4. CASE kind \notin Forwarded
    BY <1>3, <1>10, <2>4, RunsNone DEF Announced, Forwarded
  <2> QED
    BY <2>1, <2>2, <2>3, <2>4 DEF Forwarded
<1>12. Sums(b, given'.text, given'.reasoning, given'.calls)
  <2>1. CASE kind = "tool_use"
    BY <1>1, <1>3, <1>6, <1>10, <2>1, GivenCall
  <2>2. CASE kind # "tool_use"
    BY <1>1, <1>3, <1>6, <1>10, <2>2, GivenSame
  <2> QED
    BY <2>1, <2>2
<1>13. Rest(b)'
  BY <1>4, <1>5, <1>9, <1>10, <1>12, AnthropicRest
<1> QED
  BY <1>11, <1>13 DEF Goes

LEMMA BlockStopGoes ==
  ASSUME ContentBlockStop, ProviderTyped, NEW a \in Accounts, Rest(a), NEW fits, Can(fits)
  PROVE  Goes(a)
<1>1. provider \in Provider /\ ConvTyped /\ GivenTyped
  BY DEF ProviderTyped
<1>2. PICK i \in Nat, kind \in BlockKinds \cup {"none"} : i = provider.index /\ kind = provider.block
  BY <1>1, ProviderFields
<1>3. kind \in BlockKinds /\ provider.phase = "open"
  BY <1>1, <1>2, InBlock DEF ContentBlockStop, Ready
<1>4. protocol = "anthropic" /\ protocol' = "anthropic" /\ Sends("open", "none", i + 1, 0) /\ given' = given
  BY <1>2 DEF ContentBlockStop, Ready, Quiet
<1>5. provider'.phase = "open" /\ provider'.block = "none" /\ provider'.index = i + 1
  BY <1>1, <1>4, SendsTo
<1>6. PICK s, t, r, c : s = conv.suppressText /\ t = given.text /\ r = given.reasoning /\ c = given.calls
  OBVIOUS
<1>7. Sums(a, t, r, c) /\ AnthropicAt(a, i, kind, s)
  BY <1>2, <1>3, <1>4, <1>6 DEF Rest
<1>8. \/ i \in s /\ core' = <<>> /\ conv' = [conv EXCEPT !.suppressText = @ \ {i}]
      \/ i \notin s /\ core' \in {<<BlockDone(i)>>, <<SignedBlockDone(i)>>} /\ conv' = conv
  BY <1>2, <1>6 DEF ContentBlockStop
<1>9. given'.text = t /\ given'.reasoning = r /\ given'.calls = c
  BY <1>4, <1>6
<1>10. CASE i \in s
  <2>1. conv'.suppressText = s \ {i} /\ core' = <<>>
    BY <1>1, <1>4, <1>6, <1>8, <1>10 DEF ConvTyped
  <2>2. AnthropicAt(a, i + 1, "none", s \ {i})
    BY <1>3, <1>7, <1>10, AnthropicEnds
  <2>3. Rest(a)'
    BY <1>4, <1>5, <1>7, <1>9, <2>1, <2>2, AnthropicRest
  <2> QED
    BY <2>1, <2>3, RunsNone DEF Goes
<1>11. CASE i \notin s
  <2>1. PICK b \in Accounts : EndsBlock(a, i, b) /\ AnthropicAt(b, i + 1, "none", s) /\ Sums(b, t, r, c)
    BY <1>3, <1>7, <1>11, AnthropicEnds
  <2>2. PICK e \in {BlockDone(i), SignedBlockDone(i)} : core' = <<e>> /\ conv' = conv
    BY <1>8, <1>11
  <2>3. Runs(a, core', b)
    BY <2>1, <2>2, FollowsDone, RunsOne
  <2>4. Rest(b)'
    BY <1>4, <1>5, <1>6, <1>9, <2>1, <2>2, AnthropicRest
  <2> QED
    BY <2>3, <2>4 DEF Goes
<1> QED
  BY <1>10, <1>11

\* A delta of a stream in the usual order.
LEMMA DeltaGives ==
  ASSUME ContentBlockDelta, ProviderTyped, NEW i \in Nat, i = provider.index,
         NEW kind, kind = provider.block, conv.blockTypes[i] = kind, habits' = {}
  PROVE  /\ protocol = "anthropic" /\ protocol' = "anthropic" /\ provider'.phase = "open"
         /\ provider'.block = kind /\ provider'.index = i
         /\ \/ /\ kind = "text" /\ core' = <<>> /\ given' = given
               /\ conv'.suppressText = conv.suppressText \cup {i}
               /\ i \in DOMAIN contentText => contentText[i] = <<>>
            \/ /\ kind = "text" /\ core' = <<Delta("text_delta", i, Piece)>> /\ Gave("text")
               /\ conv' = conv /\ i \notin conv.suppressText
            \/ /\ kind = "thinking" /\ core' = <<Delta("text_delta", i, Piece)>> /\ Gave("reasoning")
               /\ conv' = conv
            \/ /\ kind = "thinking" /\ core' = <<Delta("text_delta", i, <<>>)>>
               /\ given' = [given EXCEPT !.signed = @ \cup {provider.index}]
               /\ conv' = conv
            \/ /\ kind = "tool_use" /\ core' = <<Delta("args_delta", i, Piece)>>
               /\ GaveCall(Len(given.calls))
               /\ conv' = conv
<1>0. provider \in Provider /\ ConvTyped
  BY DEF ProviderTyped
<1>1. protocol = "anthropic" /\ protocol' = "anthropic" /\ Sends("open", kind, i, 1)
  BY DEF ContentBlockDelta, Ready, Quiet
<1>2. provider'.phase = "open" /\ provider'.block = kind /\ provider'.index = i
  BY <1>0, <1>1, SendsTo
<1>3. \E type \in DeltaTypes(provider.block) :
         LET n == provider.index
             known == conv.blockTypes[n]
             hasText == n \in DOMAIN contentText /\ contentText[n] # <<>>
         IN /\ core' = IF type = "status" THEN <<>>
                       ELSE IF type = "text_delta" \/ known = "text" THEN <<Delta("text_delta", n, Piece)>>
                       ELSE IF type = "input_json_delta" \/ known = "tool_use"
                            THEN <<Delta("args_delta", n, Piece)>>
                       ELSE IF type = "thinking_delta" THEN <<Delta("text_delta", n, Piece)>>
                       ELSE IF known = "thinking" THEN <<Delta("text_delta", n, <<>>)>>
                       ELSE <<>>
            /\ conv' = CASE type = "status" -> [conv EXCEPT !.suppressText = @ \cup {n}]
                         [] type = "signature_delta" /\ known # "thinking"
                              -> [conv EXCEPT !.blockSignatures = @ \cup {n}]
                         [] OTHER -> conv
            /\ CASE type = "text_delta" -> Gave("text")
                 [] type = "thinking_delta" -> Gave("reasoning")
                 [] type = "input_json_delta" /\ known = "tool_use" -> GaveCall(Len(given.calls))
                 [] type = "signature_delta" -> given' = [given EXCEPT !.signed = @ \cup {provider.index}]
                 [] OTHER -> UNCHANGED given
            /\ habits' = IF \/ type = "status" /\ hasText
                            \/ type = "text_delta" /\ n \in conv.suppressText
                         THEN habits \cup {"status_in_text"}
                         ELSE IF known = "server_tool_use" THEN habits \cup {"server_input"} ELSE habits
  BY Zenon DEF ContentBlockDelta
<1>4. PICK type \in DeltaTypes(kind) :
         /\ core' = IF type = "status" THEN <<>>
                    ELSE IF type = "text_delta" \/ kind = "text" THEN <<Delta("text_delta", i, Piece)>>
                    ELSE IF type = "input_json_delta" \/ kind = "tool_use"
                         THEN <<Delta("args_delta", i, Piece)>>
                    ELSE IF type = "thinking_delta" THEN <<Delta("text_delta", i, Piece)>>
                    ELSE IF kind = "thinking" THEN <<Delta("text_delta", i, <<>>)>>
                    ELSE <<>>
         /\ conv' = CASE type = "status" -> [conv EXCEPT !.suppressText = @ \cup {i}]
                      [] type = "signature_delta" /\ kind # "thinking"
                           -> [conv EXCEPT !.blockSignatures = @ \cup {i}]
                      [] OTHER -> conv
         /\ CASE type = "text_delta" -> Gave("text")
              [] type = "thinking_delta" -> Gave("reasoning")
              [] type = "input_json_delta" /\ kind = "tool_use" -> GaveCall(Len(given.calls))
              [] type = "signature_delta" -> given' = [given EXCEPT !.signed = @ \cup {provider.index}]
              [] OTHER -> given' = given
         /\ habits' = IF \/ type = "status" /\ i \in DOMAIN contentText /\ contentText[i] # <<>>
                         \/ type = "text_delta" /\ i \in conv.suppressText
                      THEN habits \cup {"status_in_text"}
                      ELSE IF kind = "server_tool_use" THEN habits \cup {"server_input"} ELSE habits
  BY <1>3
<1>5. \A h : habits \cup {h} # {}
  OBVIOUS
<1>6. /\ kind # "server_tool_use" \/ (type = "text_delta" /\ i \in conv.suppressText)
                                  \/ (type = "status" /\ i \in DOMAIN contentText /\ contentText[i] # <<>>)
      /\ ~ (type = "status" /\ i \in DOMAIN contentText /\ contentText[i] # <<>>)
      /\ ~ (type = "text_delta" /\ i \in conv.suppressText)
  BY <1>4, <1>5
<1>11. (CASE type = "text_delta" -> Gave("text")
          [] type = "thinking_delta" -> Gave("reasoning")
          [] type = "input_json_delta" /\ kind = "tool_use" -> GaveCall(Len(given.calls))
          [] type = "signature_delta" -> given' = [given EXCEPT !.signed = @ \cup {provider.index}]
          [] OTHER -> given' = given)
  BY <1>4
<1>15. /\ core' = IF type = "status" THEN <<>>
                  ELSE IF type = "text_delta" \/ kind = "text" THEN <<Delta("text_delta", i, Piece)>>
                  ELSE IF type = "input_json_delta" \/ kind = "tool_use"
                       THEN <<Delta("args_delta", i, Piece)>>
                  ELSE IF type = "thinking_delta" THEN <<Delta("text_delta", i, Piece)>>
                  ELSE IF kind = "thinking" THEN <<Delta("text_delta", i, <<>>)>>
                  ELSE <<>>
       /\ conv' = CASE type = "status" -> [conv EXCEPT !.suppressText = @ \cup {i}]
                     [] type = "signature_delta" /\ kind # "thinking"
                          -> [conv EXCEPT !.blockSignatures = @ \cup {i}]
                     [] OTHER -> conv
  BY <1>4
<1>12. type = "text_delta" => Gave("text")
  BY ONLY <1>11
<1>13. type = "thinking_delta" => Gave("reasoning")
  BY ONLY <1>11
<1>14. type = "status" => given' = given
  BY ONLY <1>11
<1>7. CASE kind = "text"
  <2>1. type \in {"status", "text_delta"}
    BY <1>4, <1>7 DEF DeltaTypes
  <2>2. CASE type = "status"
    <3>1. core' = <<>> /\ given' = given /\ conv' = [conv EXCEPT !.suppressText = @ \cup {i}]
      <4>1. core' = <<>> /\ conv' = [conv EXCEPT !.suppressText = @ \cup {i}]
        BY <1>15, <2>2
      <4> QED
        BY <1>14, <2>2, <4>1
    <3>2. conv'.suppressText = conv.suppressText \cup {i}
      BY <1>0, <1>1, <3>1 DEF ConvTyped
    <3> QED
      BY <1>1, <1>2, <1>6, <1>7, <2>2, <3>1, <3>2
  <2>3. CASE type = "text_delta"
    <3>1. core' = <<Delta("text_delta", i, Piece)>> /\ Gave("text") /\ conv' = conv
      <4>1. core' = <<Delta("text_delta", i, Piece)>> /\ conv' = conv
        BY <1>15, <2>3
      <4> QED
        BY <1>12, <2>3, <4>1
    <3> QED
      BY <1>1, <1>2, <1>6, <1>7, <2>3, <3>1
  <2> QED
    BY <2>1, <2>2, <2>3
<1>8. CASE kind = "thinking"
  <2>1. type \in {"thinking_delta", "signature_delta"}
    BY <1>4, <1>8 DEF DeltaTypes
  <2>2. CASE type = "thinking_delta"
    <3>1. core' = <<Delta("text_delta", i, Piece)>> /\ Gave("reasoning") /\ conv' = conv
      <4>1. core' = <<Delta("text_delta", i, Piece)>> /\ conv' = conv
        BY <1>15, <1>8, <2>2
      <4> QED
        BY <1>13, <2>2, <4>1
    <3> QED
      BY <1>1, <1>2, <1>8, <3>1
  <2>3. CASE type = "signature_delta"
    <3>1. /\ core' = <<Delta("text_delta", i, <<>>)>> /\ conv' = conv
          /\ given' = [given EXCEPT !.signed = @ \cup {provider.index}]
      BY <1>4, <1>8, <2>3
    <3> QED
      BY <1>1, <1>2, <1>8, <3>1
  <2> QED
    BY <2>1, <2>2, <2>3
<1>9. CASE kind = "tool_use"
  <2>1. type = "input_json_delta"
    BY <1>4, <1>9 DEF DeltaTypes
  <2>2. core' = <<Delta("args_delta", i, Piece)>> /\ GaveCall(Len(given.calls)) /\ conv' = conv
    BY <1>4, <1>9, <2>1
  <2> QED
    BY <1>1, <1>2, <1>9, <2>2
<1>10. kind \in {"text", "thinking", "tool_use"}
  <2>1. \/ type = "input_json_delta" /\ kind = "server_tool_use"
        \/ kind \in {"text", "thinking", "tool_use"}
    BY <1>4 DEF DeltaTypes
  <2> QED
    BY <1>6, <2>1
<1> QED
  BY <1>7, <1>8, <1>9, <1>10

\* A search status that comes when the block has no text yet suppresses its end.
LEMMA AnthropicSuppressed ==
  ASSUME NEW a, Accounted(a), NEW i \in Nat, NEW s, AnthropicAt(a, i, "text", s),
         i \in DOMAIN contentText => contentText[i] = <<>>
  PROVE  AnthropicAt(a, i, "text", s \cup {i})
<1>1. a \in Accounts /\ BlockIs(a, i)
  BY DEF Accounted
<1>2. CASE a.open = {i} /\ Current(a, i, "message") /\ ItemAt(a, i).text # <<>>
  <2>1. i \in a.open /\ ~ IsCall(a, i)
    BY <1>1, <1>2, CurrentIs DEF IsCall
  <2>2. i \in DOMAIN contentText /\ ItemAt(a, i).text = contentText[i]
    BY <1>1, <2>1 DEF BlockIs
  <2> QED
    BY <1>2, <2>2
<1>3. CASE i \in a.begun /\ a.open = {} /\ s \subseteq {i}
  BY <1>3 DEF AnthropicAt, Forwarded
<1> QED
  BY <1>2, <1>3 DEF AnthropicAt

LEMMA BlockDeltaGoes ==
  ASSUME ContentBlockDelta, ProviderTyped, NEW a, Accounted(a), Rest(a), NEW fits, Can(fits), habits' = {}
  PROVE  Goes(a)
<1>1. provider \in Provider /\ ConvTyped /\ GivenTyped /\ a \in Accounts
  BY DEF ProviderTyped, Accounted
<1>2. PICK i \in Nat, kind \in BlockKinds \cup {"none"} : i = provider.index /\ kind = provider.block
  BY <1>1, ProviderFields
<1>3. kind \in BlockKinds /\ provider.phase = "open" /\ conv.blockTypes[i] = kind
  BY <1>1, <1>2, InBlock DEF ContentBlockDelta, Ready
<1>4. PICK s, t, r, c : s = conv.suppressText /\ t = given.text /\ r = given.reasoning /\ c = given.calls
  OBVIOUS
<1>5. Piece \in Pieces /\ Piece # <<>> /\ <<>> \in Pieces
  BY <1>1, ProviderFields DEF Pieces
<1>6. PICK p \in Pieces : p = Piece /\ p # <<>>
  BY <1>5
<1>7. /\ protocol = "anthropic" /\ protocol' = "anthropic" /\ provider'.phase = "open"
      /\ provider'.block = kind /\ provider'.index = i
      /\ \/ /\ kind = "text" /\ core' = <<>> /\ given' = given
            /\ conv'.suppressText = conv.suppressText \cup {i}
            /\ i \in DOMAIN contentText => contentText[i] = <<>>
         \/ /\ kind = "text" /\ core' = <<Delta("text_delta", i, Piece)>> /\ Gave("text")
            /\ conv' = conv /\ i \notin conv.suppressText
         \/ /\ kind = "thinking" /\ core' = <<Delta("text_delta", i, Piece)>> /\ Gave("reasoning")
            /\ conv' = conv
         \/ /\ kind = "thinking" /\ core' = <<Delta("text_delta", i, <<>>)>>
            /\ given' = [given EXCEPT !.signed = @ \cup {provider.index}]
            /\ conv' = conv
         \/ /\ kind = "tool_use" /\ core' = <<Delta("args_delta", i, Piece)>>
            /\ GaveCall(Len(given.calls))
            /\ conv' = conv
  BY <1>2, <1>3, DeltaGives
<1>8. Sums(a, t, r, c) /\ AnthropicAt(a, i, kind, s)
  BY <1>2, <1>3, <1>4, <1>7 DEF Rest
<1>9. CASE /\ kind = "text" /\ core' = <<>> /\ given' = given
           /\ conv'.suppressText = conv.suppressText \cup {i}
           /\ i \in DOMAIN contentText => contentText[i] = <<>>
  <2>1. AnthropicAt(a, i, kind, s \cup {i})
    BY <1>8, <1>9, AnthropicSuppressed
  <2>2. Rest(a)'
    BY <1>4, <1>7, <1>8, <1>9, <2>1, AnthropicRest
  <2> QED
    BY <1>1, <1>9, <2>2, RunsNone DEF Goes
<1>10. CASE /\ kind = "text" /\ core' = <<Delta("text_delta", i, Piece)>> /\ Gave("text")
            /\ conv' = conv /\ i \notin conv.suppressText
  <2>1. s = {}
    BY <1>4, <1>8, <1>10 DEF AnthropicAt
  <2>2. PICK b \in Accounts : Adds(a, i, p, b) /\ AnthropicAt(b, i, kind, {}) /\ Sums(b, t \o p, r, c)
    BY <1>1, <1>6, <1>8, <1>10, <2>1, AnthropicAdds
  <2>3. Runs(a, core', b)
    BY <1>1, <1>6, <1>10, <2>2, FollowsText, RunsOne
  <2>4. given'.text = t \o p /\ given'.reasoning = r /\ given'.calls = c
    BY <1>1, <1>4, <1>6, <1>10, GivenText
  <2>5. Rest(b)'
    BY <1>4, <1>7, <1>10, <2>1, <2>2, <2>4, AnthropicRest
  <2> QED
    BY <2>3, <2>5 DEF Goes
<1>11. CASE /\ kind = "thinking" /\ conv' = conv
            /\ \/ core' = <<Delta("text_delta", i, Piece)>> /\ Gave("reasoning")
               \/ /\ core' = <<Delta("text_delta", i, <<>>)>>
                  /\ given' = [given EXCEPT !.signed = @ \cup {provider.index}]
  <2>1. s = {}
    BY <1>8, <1>11 DEF AnthropicAt
  <2>2. PICK q \in Pieces :
          /\ core' = <<Delta("text_delta", i, q)>>
          /\ given'.text = t /\ given'.reasoning = r \o q /\ given'.calls = c
    <3>1. CASE core' = <<Delta("text_delta", i, Piece)>> /\ Gave("reasoning")
      BY <1>1, <1>4, <1>6, <3>1, GivenReasoning
    <3>2. CASE /\ core' = <<Delta("text_delta", i, <<>>)>>
               /\ given' = [given EXCEPT !.signed = @ \cup {provider.index}]
      <4>1. r \in Seq(Nat)
        BY <1>1, <1>8, SumsTyped DEF Pieces
      <4>2. r \o <<>> = r
        BY <4>1, ConcatEmptySeq
      <4> QED
        BY <1>1, <1>4, <1>5, <3>2, <4>2, GivenSame
    <3> QED
      BY <1>11, <3>1, <3>2
  <2>3. PICK b \in Accounts : Adds(a, i, q, b) /\ AnthropicAt(b, i, kind, {}) /\ Sums(b, t, r \o q, c)
    BY <1>1, <1>8, <1>11, <2>1, AnthropicAdds
  <2>4. Runs(a, core', b)
    BY <1>1, <2>2, <2>3, FollowsText, RunsOne
  <2>5. Rest(b)'
    BY <1>4, <1>7, <1>11, <2>1, <2>2, <2>3, AnthropicRest
  <2> QED
    BY <2>4, <2>5 DEF Goes
<1>12. CASE /\ kind = "tool_use" /\ core' = <<Delta("args_delta", i, Piece)>>
            /\ GaveCall(Len(given.calls)) /\ conv' = conv
  <2>1. s = {}
    BY <1>8, <1>12 DEF AnthropicAt
  <2>2. PICK b \in Accounts, d \in Seq(Pieces) :
          AddsArgs(a, i, p, b) /\ AnthropicAt(b, i, kind, {}) /\ LastGrown(c, p, d) /\ Sums(b, t, r, d)
    BY <1>1, <1>8, <1>12, <2>1, AnthropicAddsArgs
  <2>3. Runs(a, core', b)
    BY <1>1, <1>6, <1>12, <2>2, FollowsArgs, RunsOne
  <2>4. given'.text = t /\ given'.reasoning = r /\ given'.calls = d
    BY <1>1, <1>4, <1>6, <1>12, <2>2, GivenLast
  <2>5. Rest(b)'
    BY <1>4, <1>7, <1>12, <2>1, <2>2, <2>4, AnthropicRest
  <2> QED
    BY <2>3, <2>5 DEF Goes
<1> QED
  BY <1>7, <1>9, <1>10, <1>11, <1>12

-----------------------------------------------------------------------------
(***************************************************************************)
(* A text that has begun, or the item that is the last: what more of it    *)
(* does, and its end.                                                      *)
(***************************************************************************)

\* None of the items is a call.
NoCalls(a) == \A n \in 1..Len(a.items) : a.items[n].type # "function_call"

LEMMA NoCallsOpened ==
  ASSUME NEW a \in Accounts, NEW i \in Nat, i \notin DOMAIN a.at, NEW type \in {"message", "reasoning"},
         NEW text \in Pieces, NEW b, b = Opened(a, i, type, text), NoCalls(a)
  PROVE  NoCalls(b)
<1>1. type \in ItemTypes /\ Len(a.items) \in Nat
  BY AccountIs DEF ItemTypes
<1>2. /\ Len(b.items) = Len(a.items) + 1 /\ b.items[Len(a.items) + 1] = [type |-> type, text |-> text]
      /\ \A n \in 1..Len(a.items) : b.items[n] = a.items[n]
  BY <1>1, OpenedIs
<1>3. \A n \in 1..(Len(a.items) + 1) : n \in 1..Len(a.items) \/ n = Len(a.items) + 1
  BY <1>1
<1> QED
  BY <1>2, <1>3 DEF NoCalls

LEMMA TextBegins ==
  ASSUME NEW a \in Accounts, NEW i \in Nat, ~ Known(a, i), NEW t, NEW r, NEW c, Sums(a, t, r, c)
  PROVE  \E b \in Accounts :
            /\ Starts(a, i, "text", b) /\ Sums(b, t, r, c)
            /\ b.open = a.open /\ b.begun = a.begun \cup {i} /\ b.items = a.items
            /\ \A j : Known(b, j) <=> Known(a, j) \/ j = i
<1>1. PICK b : b = Begun(a, i)
  OBVIOUS
<1>2. /\ b \in Accounts /\ b.items = a.items /\ b.at = a.at
      /\ b.begun = a.begun \cup {i} /\ b.open = a.open
  BY <1>1, BegunIs DEF Known
<1>3. Starts(a, i, "text", b)
  BY <1>1 DEF Starts
<1>4. Sums(b, t, r, c)
  BY <1>2, SumsSame
<1>5. \A j : Known(b, j) <=> Known(a, j) \/ j = i
  BY <1>2 DEF Known
<1> QED
  BY <1>2, <1>3, <1>4, <1>5

LEMMA ItemBegins ==
  ASSUME NEW a \in Accounts, NEW i \in Nat, ~ Known(a, i), NEW t, NEW r, NEW c, Sums(a, t, r, c),
         NEW kind \in {"reasoning", "tool_use"},
         NEW type, type = IF kind = "reasoning" THEN "reasoning" ELSE "function_call"
  PROVE  \E b \in Accounts :
            /\ Starts(a, i, kind, b) /\ b = Opened(a, i, type, <<>>)
            /\ Current(b, i, type) /\ ItemAt(b, i).text = <<>>
            /\ Sums(b, t, r, IF kind = "tool_use" THEN Append(c, <<>>) ELSE c)
            /\ b.open = a.open \cup {i} /\ b.begun = a.begun
            /\ \A j : Known(b, j) <=> Known(a, j) \/ j = i
            /\ kind = "reasoning" /\ NoCalls(a) => NoCalls(b)
<1>1. type \in ItemTypes /\ <<>> \in Pieces /\ i \notin DOMAIN a.at /\ i \notin a.begun
  BY DEF ItemTypes, Pieces, Known
<1>2. PICK b : b = Opened(a, i, type, <<>>)
  OBVIOUS
<1>3. /\ b \in Accounts /\ DOMAIN b.at = DOMAIN a.at \cup {i}
      /\ b.begun = a.begun \ {i} /\ b.open = a.open \cup {i}
  BY <1>1, <1>2, OpenedAt
<1>4. Current(b, i, type) /\ ItemAt(b, i).text = <<>>
  BY <1>1, <1>2, NewIsCurrent
<1>5. Starts(a, i, kind, b)
  BY <1>2 DEF Starts
<1>6. \A j : Known(b, j) <=> Known(a, j) \/ j = i
  BY <1>3 DEF Known
<1>7. Sums(b, t, r, IF kind = "tool_use" THEN Append(c, <<>>) ELSE c)
  <2>1. CASE kind = "reasoning"
    BY <1>1, <1>2, <2>1, SumsOfEmpty
  <2>2. CASE kind = "tool_use"
    BY <1>1, <1>2, <2>2, SumsOfNew
  <2> QED
    BY <2>1, <2>2
<1>8. kind = "reasoning" /\ NoCalls(a) => NoCalls(b)
  BY <1>1, <1>2, NoCallsOpened
<1>9. b.begun = a.begun
  BY <1>1, <1>3
<1> QED
  BY <1>2, <1>3, <1>4, <1>5, <1>6, <1>7, <1>8, <1>9

LEMMA BegunAdds ==
  ASSUME NEW a \in Accounts, NEW i \in Nat, i \in a.begun, NEW text \in Pieces,
         NEW t, NEW r, NEW c, Sums(a, t, r, c)
  PROVE  \E b \in Accounts :
            /\ Adds(a, i, text, b) /\ Current(b, i, "message") /\ Sums(b, t \o text, r, c)
            /\ b.open = a.open \cup {i} /\ b.begun = a.begun \ {i}
            /\ \A j : Known(b, j) <=> Known(a, j)
            /\ NoCalls(a) => NoCalls(b)
<1>1. "message" \in ItemTypes
  BY DEF ItemTypes
<1>2. PICK b : b = Opened(a, i, "message", text)
  OBVIOUS
<1>3. i \notin DOMAIN a.at
  BY AccountIs DEF Placing
<1>4. /\ b \in Accounts /\ DOMAIN b.at = DOMAIN a.at \cup {i}
      /\ b.begun = a.begun \ {i} /\ b.open = a.open \cup {i}
  BY <1>1, <1>2, <1>3, OpenedAt
<1>5. Current(b, i, "message")
  BY <1>1, <1>2, <1>3, NewIsCurrent
<1>6. Adds(a, i, text, b)
  BY <1>2 DEF Adds
<1>7. Sums(b, t \o text, r, c)
  BY <1>1, <1>2, <1>3, SumsOfNew
<1>8. \A j : Known(b, j) <=> Known(a, j)
  BY <1>4 DEF Known
<1>9. NoCalls(a) => NoCalls(b)
  BY <1>2, <1>3, NoCallsOpened
<1> QED
  BY <1>4, <1>5, <1>6, <1>7, <1>8, <1>9

LEMMA CurrentAdds ==
  ASSUME NEW a \in Accounts, NEW i \in Nat, NEW type \in {"message", "reasoning"}, Current(a, i, type),
         NEW text \in Pieces, NEW t, NEW r, NEW c, Sums(a, t, r, c)
  PROVE  \E b \in Accounts :
            /\ Adds(a, i, text, b) /\ Current(b, i, type)
            /\ Sums(b, More(type, "message", t, text), More(type, "reasoning", r, text), c)
            /\ b.open = a.open /\ b.begun = a.begun
            /\ \A j : Known(b, j) <=> Known(a, j)
            /\ NoCalls(a) => NoCalls(b)
<1>1. PICK b : b = Grew(a, i, ItemAt(a, i).text \o text)
  OBVIOUS
<1>2. /\ b \in Accounts /\ Current(b, i, type) /\ b.at = a.at /\ b.begun = a.begun /\ b.open = a.open
      /\ Len(b.items) = Len(a.items) /\ \A n \in 1..Len(a.items) : b.items[n].type = a.items[n].type
  BY <1>1, GrewCurrent
<1>3. Adds(a, i, text, b)
  <2>1. i \in a.open /\ ItemAt(a, i).type = type
    BY CurrentIs
  <2> QED
    BY <1>1, <2>1 DEF Adds, IsCall
<1>4. Sums(b, More(type, "message", t, text), More(type, "reasoning", r, text), c)
  BY <1>1, SumsGrown
<1>5. \A j : Known(b, j) <=> Known(a, j)
  BY <1>2 DEF Known
<1>6. NoCalls(a) => NoCalls(b)
  BY <1>2 DEF NoCalls
<1> QED
  BY <1>2, <1>3, <1>4, <1>5, <1>6

LEMMA BegunEnds ==
  ASSUME NEW a \in Accounts, NEW i \in Nat, i \in a.begun,
         NEW t, NEW r, NEW c, Sums(a, t, r, c)
  PROVE  \E b \in Accounts :
            /\ EndsBlock(a, i, b) /\ Sums(b, t, r, c)
            /\ b.open = a.open \ {i} /\ b.begun = a.begun \ {i}
            /\ \A j : Known(b, j) <=> Known(a, j)
<1>1. "message" \in ItemTypes /\ <<>> \in Pieces
  BY DEF ItemTypes, Pieces
<1>2. PICK m, b : m = Opened(a, i, "message", <<>>) /\ b = Shut(m, i)
  OBVIOUS
<1>3. i \notin DOMAIN a.at
  BY AccountIs DEF Placing
<1>4. /\ m \in Accounts /\ DOMAIN m.at = DOMAIN a.at \cup {i}
      /\ m.begun = a.begun \ {i} /\ m.open = a.open \cup {i}
  BY <1>1, <1>2, <1>3, OpenedAt
<1>5. b \in Accounts /\ b.items = m.items /\ b.at = m.at /\ b.begun = m.begun /\ b.open = m.open \ {i}
  BY <1>2, <1>4, ShutIs
<1>6. EndsBlock(a, i, b)
  BY <1>2 DEF EndsBlock
<1>7. Sums(m, t, r, c)
  BY <1>2, <1>3, SumsOfEmpty
<1>8. \A j : Known(b, j) <=> Known(a, j)
  BY <1>4, <1>5 DEF Known
<1>9. b.open = a.open \ {i} /\ b.begun = a.begun \ {i}
  BY <1>4, <1>5
<1> QED
  BY <1>5, <1>6, <1>7, <1>8, <1>9, SumsSame

LEMMA OpenEnds ==
  ASSUME NEW a \in Accounts, NEW i \in Nat, i \in a.open,
         NEW t, NEW r, NEW c, Sums(a, t, r, c)
  PROVE  \E b \in Accounts :
            /\ EndsBlock(a, i, b) /\ Sums(b, t, r, c)
            /\ b.open = a.open \ {i} /\ b.begun = a.begun /\ b.items = a.items /\ b.at = a.at
            /\ \A j : Known(b, j) <=> Known(a, j)
<1>1. PICK b : b = Shut(a, i)
  OBVIOUS
<1>2. b \in Accounts /\ b.items = a.items /\ b.at = a.at /\ b.begun = a.begun /\ b.open = a.open \ {i}
  BY <1>1, ShutIs
<1>3. EndsBlock(a, i, b)
  BY <1>1 DEF EndsBlock
<1>4. \A j : Known(b, j) <=> Known(a, j)
  BY <1>2 DEF Known
<1> QED
  BY <1>2, <1>3, <1>4, SumsSame

-----------------------------------------------------------------------------
(* Gemini *)

LEMMA GoogleAdds ==
  ASSUME NEW a \in Accounts, GoogleOpen(a), NEW text \in Pieces, NEW t, NEW r, NEW c, Sums(a, t, r, c)
  PROVE  \E b \in Accounts : Adds(a, 0, text, b) /\ GoogleOpen(b) /\ Sums(b, t \o text, r, c)
<1>1. 0 \in Nat
  OBVIOUS
<1>2. CASE 0 \in a.begun /\ a.open = {}
  <2>0. PICK i \in Nat : i = 0
    BY <1>1
  <2>1. PICK b \in Accounts : /\ Adds(a, i, text, b) /\ Current(b, i, "message") /\ Sums(b, t \o text, r, c)
                              /\ b.open = a.open \cup {i}
    <3>1. i \in a.begun
      BY <1>2, <2>0
    <3> QED
      BY <3>1, BegunAdds
  <2> QED
    BY <1>2, <2>0, <2>1 DEF GoogleOpen
<1>3. CASE a.open = {0} /\ Current(a, 0, "message")
  <2>1. PICK b \in Accounts :
            /\ Adds(a, 0, text, b) /\ Current(b, 0, "message") /\ b.open = a.open
            /\ Sums(b, More("message", "message", t, text), More("message", "reasoning", r, text), c)
    BY <1>1, <1>3, CurrentAdds
  <2>2. Sums(b, t \o text, r, c)
    BY <2>1 DEF More
  <2> QED
    BY <1>3, <2>1, <2>2 DEF GoogleOpen
<1> QED
  BY <1>2, <1>3 DEF GoogleOpen

LEMMA GoogleEnds ==
  ASSUME NEW a \in Accounts, GoogleOpen(a), NEW t, NEW r, NEW c, Sums(a, t, r, c)
  PROVE  \E b \in Accounts : EndsBlock(a, 0, b) /\ b.open = {} /\ Sums(b, t, r, c)
<1>1. 0 \in Nat
  OBVIOUS
<1>2. CASE 0 \in a.begun /\ a.open = {}
  BY <1>1, <1>2, BegunEnds
<1>3. CASE a.open = {0}
  BY <1>1, <1>3, OpenEnds
<1> QED
  BY <1>2, <1>3 DEF GoogleOpen

LEMMA GoogleRuns ==
  ASSUME NEW a \in Accounts, NEW started \in BOOLEAN, started => GoogleOpen(a), ~ started => a = Blank,
         NEW delta \in Pieces, NEW finish \in BOOLEAN, NEW queue, queue = GoogleEvents(started, delta, finish),
         NEW t, NEW r, NEW c, Sums(a, t, r, c)
  PROVE  \E b \in Accounts :
            /\ Runs(a, queue, b) /\ Sums(b, t \o delta, r, c)
            /\ finish => b.open = {}
            /\ ~ finish => GoogleOpen(b)
<1> DEFINE q == IF started THEN <<>> ELSE <<BlockStarted(0, "text")>>
           s == q \o (IF delta # <<>> THEN <<Delta("text_delta", 0, delta)>> ELSE <<>>)
<1>0. 0 \in Nat /\ queue = s \o (IF finish THEN <<BlockDone(0)>> ELSE <<>>)
  BY DEF GoogleEvents
<1>1. PICK m \in Accounts : Runs(a, q, m) /\ GoogleOpen(m) /\ Sums(m, t, r, c) /\ q \in Seq(CoreEvent)
  <2>1. CASE started
    <3>1. <<>> \in Seq(CoreEvent)
      OBVIOUS
    <3> QED
      BY <2>1, <3>1, RunsNone
  <2>2. CASE ~ started
    <3>1. PICK m : m = Begun(a, 0)
      OBVIOUS
    <3>2. 0 \notin DOMAIN a.at /\ ~ Known(a, 0) /\ a.open = {}
      BY <2>2, BlankIs DEF Known
    <3>3. m \in Accounts /\ m.items = a.items /\ m.begun = a.begun \cup {0} /\ m.open = a.open
      BY <1>0, <3>1, <3>2, BegunIs
    <3>4. Starts(a, 0, "text", m)
      BY <3>1, <3>2 DEF Starts
    <3>5. BlockStarted(0, "text") \in CoreEvent /\ Follows(a, BlockStarted(0, "text"), m)
      BY <1>0, <3>4, FollowsStart
    <3>6. Runs(a, q, m) /\ q \in Seq(CoreEvent)
      BY <2>2, <3>5, RunsOne
    <3> HIDE DEF q
    <3>7. GoogleOpen(m)
      <4>1. 0 \in m.begun /\ m.open = {}
        BY <3>2, <3>3
      <4> QED
        BY <4>1 DEF GoogleOpen
    <3>8. Sums(m, t, r, c)
      BY <3>3, SumsSame
    <3> QED
      BY <3>3, <3>6, <3>7, <3>8
  <2> QED
    BY <2>1, <2>2
<1> HIDE DEF q
<1>2. PICK n \in Accounts : Runs(a, s, n) /\ GoogleOpen(n) /\ Sums(n, t \o delta, r, c) /\ s \in Seq(CoreEvent)
  <2>1. CASE delta = <<>>
    <3>1. s = q
      BY <1>1, <2>1, Joins
    <3>2. t \o delta = t
      <4>1. t \in Seq(Nat)
        BY SumsTyped DEF Pieces
      <4> QED
        BY <2>1, <4>1, ConcatEmptySeq
    <3> QED
      BY <1>1, <3>1, <3>2
  <2>2. CASE delta # <<>>
    <3>1. PICK n \in Accounts : Adds(m, 0, delta, n) /\ GoogleOpen(n) /\ Sums(n, t \o delta, r, c)
      BY <1>1, GoogleAdds
    <3>2. PICK e : e = Delta("text_delta", 0, delta) /\ e \in CoreEvent /\ Follows(m, e, n)
      BY <1>0, <3>1, FollowsText
    <3>3. s = Append(q, e)
      BY <1>1, <2>2, <3>2, Joins
    <3> HIDE DEF s
    <3>4. Runs(a, s, n)
      BY <1>1, <3>2, <3>3, RunsMore
    <3>5. s \in Seq(CoreEvent)
      BY <1>1, <3>2, <3>3, AppendProperties
    <3> QED
      BY <3>1, <3>4, <3>5
  <2> QED
    BY <2>1, <2>2
<1> HIDE DEF s
<1>3. CASE ~ finish
  <2>1. queue = s
    BY <1>0, <1>2, <1>3, Joins
  <2> QED
    BY <1>2, <1>3, <2>1
<1>4. CASE finish
  <2>1. PICK b \in Accounts : EndsBlock(n, 0, b) /\ b.open = {} /\ Sums(b, t \o delta, r, c)
    BY <1>2, GoogleEnds
  <2>2. PICK e : e = BlockDone(0) /\ e \in CoreEvent /\ Follows(n, e, b)
    BY <1>0, <2>1, FollowsDone
  <2>3. queue = Append(s, e)
    BY <1>0, <1>2, <1>4, <2>2, Joins
  <2>4. Runs(a, queue, b)
    BY <1>2, <2>2, <2>3, RunsMore
  <2> QED
    BY <1>4, <2>1, <2>4
<1> QED
  BY <1>3, <1>4

\* The snapshots grow, so the delta is what they grew by.
LEMMA DeltaOfSnapshot ==
  ASSUME NEW t \in Pieces, NEW p \in Pieces, p # <<>>
  PROVE  ComputeDelta(t, t \o p) = p
<1>1. t \in Seq(Nat) /\ p \in Seq(Nat)
  BY DEF Pieces
<1>2. PICK m \in Nat, n \in Nat : m = Len(t) /\ n = Len(p)
  BY <1>1, ElementsOf
<1>3. n > 0
  BY <1>1, <1>2
<1>4. PICK s \in Seq(Nat) : s = t \o p
  BY <1>1, ConcatProperties
<1>5. Len(s) = m + n /\ \A k \in 1..n : s[m + k] = p[k]
  BY <1>1, <1>2, <1>4
<1>6. ~ (m + n <= m) /\ m + 1 \in 1..(m + n) /\ m + n \in 1..(m + n) /\ (m + n) - (m + 1) + 1 = n
  BY <1>3
<1>7. PICK d : d = SubSeq(s, m + 1, m + n)
  OBVIOUS
<1>8. d \in Seq(Nat) /\ Len(d) = n /\ \A k \in 1..n : d[k] = s[m + k]
  <2>1. PICK x \in Nat, y \in Nat : x = m + 1 /\ y = m + n /\ d = SubSeq(s, x, y)
    BY <1>7
  <2>2. /\ x \in Int /\ y \in Int /\ x <= y /\ y - x + 1 = n
        /\ x..y \subseteq 1..Len(s) /\ \A k \in 1..n : x + k - 1 = m + k
    BY <1>3, <1>5, <2>1
  <2>3. \A k \in x..y : s[k] \in Nat
    BY <1>4, <2>2
  <2>4. /\ SubSeq(s, x, y) \in Seq(Nat) /\ Len(SubSeq(s, x, y)) = (IF x <= y THEN y - x + 1 ELSE 0)
        /\ \A k \in 1..(y - x + 1) : SubSeq(s, x, y)[k] = s[x + k - 1]
    BY ONLY <2>2, <2>3, SubSeqProperties
  <2> QED
    BY <2>1, <2>2, <2>4
<1>9. d = p
  <2>1. d \in Seq(Nat) /\ p \in Seq(Nat) /\ Len(d) = Len(p) /\ \A k \in 1..Len(d) : d[k] = p[k]
    BY <1>1, <1>2, <1>5, <1>8
  <2> QED
    BY ONLY <2>1, SameSequence
<1> QED
  BY <1>2, <1>4, <1>5, <1>6, <1>7, <1>9 DEF ComputeDelta

LEMMA GoogleRest ==
  ASSUME protocol' = "google", NEW b, Sums(b, given'.text, given'.reasoning, given'.calls),
         \/ provider'.phase = "open" /\ conv'.prevText = given'.text /\ GoogleOpen(b)
         \/ provider'.phase = "stopped" /\ b.open = {}
  PROVE  Rest(b)'
  BY DEF Rest, Whole, GoogleAt

LEMMA GoogleChunkGoes ==
  ASSUME GoogleChunk, ProviderTyped, NEW a \in Accounts, Rest(a), NEW fits, Can(fits), habits' = {}
  PROVE  Goes(a)
<1>1. provider \in Provider /\ ConvTyped /\ GivenTyped
  BY DEF ProviderTyped
<1>2. protocol = "google" /\ protocol' = "google" /\ provider.phase \in {"start", "open"}
  BY DEF GoogleChunk, Ready, Quiet
<1>3. PICK grows \in BOOLEAN, finish \in BOOLEAN :
        LET current == given.text \o (IF grows THEN Piece ELSE <<>>)
            delta == ComputeDelta(conv.prevText, current)
        IN /\ core' = (IF conv.started THEN <<>> ELSE <<BlockStarted(0, "text")>>)
                      \o (IF delta # <<>> THEN <<Delta("text_delta", 0, delta)>> ELSE <<>>)
                      \o (IF finish THEN <<BlockDone(0)>> ELSE <<>>)
           /\ conv' = [started |-> TRUE, prevText |-> current]
           /\ given' = [given EXCEPT !.text = current]
           /\ Sends(IF finish THEN "stopped" ELSE "open", "text", 0, IF grows THEN 1 ELSE 0)
           /\ habits' = IF ~grows /\ current # <<>> THEN habits \cup {"same_snapshot"} ELSE habits
  BY DEF GoogleChunk
<1>4. PICK t, r, c, p, started : /\ t = given.text /\ r = given.reasoning /\ c = given.calls /\ p = Piece
                                 /\ started = conv.started
  OBVIOUS
<1>5. t \in Pieces /\ p \in Pieces /\ p # <<>> /\ started \in BOOLEAN
  <2>1. p \in Pieces /\ p # <<>>
    BY <1>1, <1>4, ProviderFields
  <2>2. t \in Pieces
    BY <1>1, <1>4 DEF GivenTyped
  <2> QED
    BY <1>1, <1>2, <1>4, <2>1, <2>2 DEF ConvTyped
<1>6. PICK current, delta : /\ current = t \o (IF grows THEN p ELSE <<>>)
                            /\ delta = ComputeDelta(conv.prevText, current)
  OBVIOUS
<1>7. /\ core' = GoogleEvents(started, delta, finish) /\ conv' = [started |-> TRUE, prevText |-> current]
      /\ given' = [given EXCEPT !.text = current]
      /\ habits' = IF ~grows /\ current # <<>> THEN habits \cup {"same_snapshot"} ELSE habits
  BY <1>3, <1>4, <1>6 DEF GoogleEvents
<1>8. Sums(a, t, r, c) /\ conv.prevText = t /\ (started => GoogleOpen(a)) /\ (~ started => a = Blank)
  <2>1. CASE provider.phase = "start"
    <3>1. ~ conv.started
      BY <1>2, <2>1 DEF Can, StartCan
    <3> QED
      BY <1>2, <1>4, <2>1, <3>1 DEF Rest
  <2>2. CASE provider.phase = "open"
    <3>1. conv.started
      BY <1>2, <2>2 DEF Can, GoogleCan
    <3> QED
      BY <1>2, <1>4, <2>2, <3>1 DEF Rest, GoogleAt
  <2> QED
    BY <1>2, <2>1, <2>2
<1>9. delta \in Pieces /\ t \o delta = current
  <2>1. CASE grows
    <3>1. current = t \o p
      BY <1>6, <2>1
    <3>2. delta = p
      BY <1>5, <1>6, <1>8, <3>1, DeltaOfSnapshot
    <3> QED
      BY <1>5, <3>1, <3>2
  <2>2. CASE ~ grows
    <3>1. current = <<>>
      BY <1>7, <2>2
    <3>2. current = t
      <4>1. t \in Seq(Nat)
        BY <1>5 DEF Pieces
      <4> QED
        BY <1>6, <2>2, <4>1, ConcatEmptySeq
    <3>3. delta = <<>> /\ t = <<>>
      BY <1>6, <1>8, <3>1, <3>2 DEF ComputeDelta
    <3> QED
      BY <1>5, <3>1, <3>3
  <2> QED
    BY <2>1, <2>2
<1>10. PICK queue : queue = GoogleEvents(started, delta, finish)
  OBVIOUS
<1>11. PICK b \in Accounts :
          /\ Runs(a, queue, b) /\ Sums(b, t \o delta, r, c)
          /\ finish => b.open = {}
          /\ ~ finish => GoogleOpen(b)
  BY <1>5, <1>8, <1>9, <1>10, GoogleRuns
<1>12. given'.text = t \o delta /\ given'.reasoning = r /\ given'.calls = c /\ conv'.prevText = given'.text
  BY <1>1, <1>4, <1>7, <1>9 DEF GivenTyped
<1>13. provider'.phase = IF finish THEN "stopped" ELSE "open"
  <2>1. \E pieces : Sends(IF finish THEN "stopped" ELSE "open", "text", 0, pieces)
    BY <1>3
  <2> QED
    BY <1>1, <2>1, SendsTo
<1>14. Rest(b)'
  BY <1>2, <1>11, <1>12, <1>13, GoogleRest
<1> QED
  BY <1>7, <1>10, <1>11, <1>14 DEF Goes

-----------------------------------------------------------------------------
(* A whole answer *)

\* A call is its last piece with what was before.
LEMMA CallGrows ==
  ASSUME NEW m \in Accounts, NEW i, Current(m, i, "function_call"), NEW text \in Pieces,
         NEW g, g = Grew(m, i, ItemAt(m, i).text \o text),
         NEW t, NEW r, NEW c \in Seq(Pieces), Sums(m, t, r, Append(c, <<>>))
  PROVE  Sums(g, t, r, Append(c, text))
<1>1. <<>> \o text = text
  <2>1. text \in Seq(Nat)
    BY DEF Pieces
  <2> QED
    BY <2>1, ConcatEmptySeq
<1>2. PICK d \in Seq(Pieces) : LastGrown(Append(c, <<>>), text, d) /\ Sums(g, t, r, d)
  BY SumsGrown
<1>3. d = Append(c, text)
  <2>1. c \in Seq(Pieces) /\ <<>> \in Pieces
    BY DEF Pieces
  <2>2. PICK n \in Nat, x \in {Append(c, <<>>)}, y \in {Append(c, text)} :
          n = Len(c) /\ x = Append(c, <<>>) /\ y = Append(c, text)
    BY <2>1, ElementsOf
  <2>3. /\ x \in Seq(Pieces) /\ Len(x) = n + 1 /\ x[n + 1] = <<>> /\ \A k \in 1..n : x[k] = c[k]
    BY <2>1, <2>2, AppendProperties
  <2>4. /\ y \in Seq(Pieces) /\ Len(y) = n + 1 /\ y[n + 1] = text /\ \A k \in 1..n : y[k] = c[k]
    BY <2>1, <2>2, AppendProperties
  <2>5. \A k \in 1..(n + 1) : k = n + 1 \/ k \in 1..n
    OBVIOUS
  <2>6. n + 1 \in Nat \ {0}
    OBVIOUS
  <2>7. LastGrown(x, text, y)
    BY <1>1, <2>3, <2>4, <2>5, <2>6 DEF LastGrown
  <2> QED
    BY <1>2, <2>2, <2>3, <2>4, <2>7, LastGrownIs
<1> QED
  BY <1>2, <1>3

\* The block of a call: its arguments come with its end.
LEMMA CallEnds ==
  ASSUME NEW a \in Accounts, NEW i \in Nat, ~ Known(a, i), NEW text \in Pieces, text # <<>>,
         NEW t, NEW r, NEW c, Sums(a, t, r, c)
  PROVE  \E m \in Accounts, b \in Accounts :
            /\ Starts(a, i, "tool_use", m) /\ EndsArgs(m, i, text, b) /\ EndsBlock(b, i, b)
            /\ Sums(b, t, r, Append(c, text)) /\ b.open = a.open \ {i}
            /\ \A j : Known(b, j) <=> Known(a, j) \/ j = i
<1>1. PICK m \in Accounts :
        /\ Starts(a, i, "tool_use", m) /\ Current(m, i, "function_call") /\ ItemAt(m, i).text = <<>>
        /\ Sums(m, t, r, Append(c, <<>>)) /\ m.open = a.open \cup {i}
        /\ \A j : Known(m, j) <=> Known(a, j) \/ j = i
  BY ItemBegins
<1>2. <<>> \o text = text
  <2>1. text \in Seq(Nat)
    BY DEF Pieces
  <2> QED
    BY <2>1, ConcatEmptySeq
<1>3. PICK g : g = Grew(m, i, ItemAt(m, i).text \o text)
  OBVIOUS
<1>4. g = Grew(m, i, text)
  BY <1>1, <1>2, <1>3
<1>5. g \in Accounts /\ Current(g, i, "function_call") /\ g.at = m.at /\ g.begun = m.begun /\ g.open = m.open
  <2>1. Current(m, i, "function_call")
    BY <1>1
  <2> QED
    BY <1>3, <2>1, GrewCurrent
<1>6. c \in Seq(Pieces)
  BY SumsTyped
<1>7. Sums(g, t, r, Append(c, text))
  <2>1. Current(m, i, "function_call") /\ Sums(m, t, r, Append(c, <<>>))
    BY <1>1
  <2> QED
    BY <1>3, <1>6, <2>1, CallGrows
<1>8. PICK b : b = Shut(g, i)
  OBVIOUS
<1>9. b \in Accounts /\ b.items = g.items /\ b.at = g.at /\ b.begun = g.begun /\ b.open = g.open \ {i}
  BY <1>5, <1>8, ShutIs
<1>10. i \in m.open /\ IsCall(m, i) /\ i \in DOMAIN g.at /\ ItemAt(g, i).type = "function_call"
  <2>1. i \in m.open /\ ItemAt(m, i).type = "function_call"
    BY <1>1, CurrentIs
  <2>2. i \in DOMAIN g.at /\ ItemAt(g, i).type = "function_call"
    BY <1>5, CurrentIs
  <2> QED
    BY <2>1, <2>2 DEF IsCall
<1>11. EndsArgs(m, i, text, b)
  BY <1>4, <1>8, <1>10 DEF EndsArgs
<1>12. EndsBlock(b, i, b)
  BY <1>9, <1>10 DEF EndsBlock, IsCall, ItemAt
<1>13. Sums(b, t, r, Append(c, text))
  BY <1>7, <1>9, SumsSame
<1>14. \A j : Known(b, j) <=> Known(a, j) \/ j = i
  BY <1>1, <1>5, <1>9 DEF Known
<1>15. b.open = a.open \ {i}
  BY <1>1, <1>5, <1>9
<1> QED
  BY <1>1, <1>9, <1>11, <1>12, <1>13, <1>14, <1>15

\* A block of text or reasoning.
Spoken(a, i, kind, text, t, r, c) ==
    \E m \in Accounts, n \in Accounts, b \in Accounts :
        /\ Starts(a, i, kind, m) /\ Adds(m, i, text, n) /\ EndsBlock(n, i, b)
        /\ Sums(b, More(kind, "text", t, text), More(kind, "reasoning", r, text), c)
        /\ b.open = a.open \ {i}
        /\ \A j : Known(b, j) <=> Known(a, j) \/ j = i

LEMMA SpokenBlock ==
  ASSUME NEW a \in Accounts, NEW i \in Nat, ~ Known(a, i), NEW text \in Pieces,
         NEW t, NEW r, NEW c, Sums(a, t, r, c), NEW kind \in {"text", "reasoning"}
  PROVE  Spoken(a, i, kind, text, t, r, c)
<1>1. PICK u, v : u = More(kind, "text", t, text) /\ v = More(kind, "reasoning", r, text)
  OBVIOUS
<1>2. PICK m \in Accounts, n \in Accounts :
        /\ Starts(a, i, kind, m) /\ Adds(m, i, text, n)
        /\ Sums(n, u, v, c) /\ i \in n.open /\ n.open = a.open \cup {i}
        /\ \A j : Known(n, j) <=> Known(a, j) \/ j = i
  <2>1. CASE kind = "text"
    <3>1. PICK m \in Accounts :
            /\ Starts(a, i, "text", m) /\ Sums(m, t, r, c) /\ m.open = a.open /\ i \in m.begun
            /\ \A j : Known(m, j) <=> Known(a, j) \/ j = i
      BY TextBegins
    <3>2. PICK n \in Accounts :
            /\ Adds(m, i, text, n) /\ Sums(n, t \o text, r, c) /\ n.open = m.open \cup {i}
            /\ \A j : Known(n, j) <=> Known(m, j)
      BY <3>1, BegunAdds
    <3>3. u = t \o text /\ v = r
      BY <1>1, <2>1 DEF More
    <3>4. /\ Starts(a, i, kind, m) /\ Sums(n, u, v, c) /\ i \in n.open /\ n.open = a.open \cup {i}
          /\ \A j : Known(n, j) <=> Known(a, j) \/ j = i
      BY <2>1, <3>1, <3>2, <3>3
    <3> QED
      BY <3>2, <3>4
  <2>2. CASE kind = "reasoning"
    <3>1. PICK m \in Accounts :
            /\ Starts(a, i, "reasoning", m) /\ Sums(m, t, r, c) /\ m.open = a.open \cup {i}
            /\ Current(m, i, "reasoning")
            /\ \A j : Known(m, j) <=> Known(a, j) \/ j = i
      BY ItemBegins
    <3>2. PICK n \in Accounts :
            /\ Adds(m, i, text, n)
            /\ Sums(n, More("reasoning", "message", t, text), More("reasoning", "reasoning", r, text), c)
            /\ n.open = m.open /\ \A j : Known(n, j) <=> Known(m, j)
      BY <3>1, CurrentAdds
    <3>3. /\ u = More("reasoning", "message", t, text) /\ v = More("reasoning", "reasoning", r, text)
      BY <1>1, <2>2 DEF More
    <3>4. /\ Starts(a, i, kind, m) /\ Sums(n, u, v, c) /\ i \in n.open /\ n.open = a.open \cup {i}
          /\ \A j : Known(n, j) <=> Known(a, j) \/ j = i
      BY <2>2, <3>1, <3>2, <3>3
    <3> QED
      BY <3>2, <3>4
  <2> QED
    BY <2>1, <2>2
<1>3. PICK b \in Accounts :
        /\ EndsBlock(n, i, b) /\ Sums(b, u, v, c) /\ b.open = n.open \ {i}
        /\ \A j : Known(b, j) <=> Known(n, j)
  BY <1>2, OpenEnds
<1>4. b.open = a.open \ {i}
  BY <1>2, <1>3
<1> QED
  BY <1>1, <1>2, <1>3, <1>4 DEF Spoken

LEMMA WholeRuns ==
  ASSUME NEW a \in Accounts, NEW i \in Nat, WholeAt(a, i), NEW text \in Pieces, text # <<>>,
         NEW kind \in {"reasoning", "tool_use", "text", "empty"}, NEW queue, queue = WholeBlock(kind, i, text),
         NEW t, NEW r, NEW c, Sums(a, t, r, c)
  PROVE  \E b \in Accounts :
            /\ Runs(a, queue, b) /\ WholeAt(b, i + 1)
            /\ Sums(b, More(kind, "text", t, text), More(kind, "reasoning", r, text),
                    IF kind = "tool_use" THEN Append(c, text) ELSE c)
<1>1. ~ Known(a, i) /\ a.open = {}
  <2>1. ~ (i < i)
    OBVIOUS
  <2> QED
    BY <2>1 DEF WholeAt
<1>2. ASSUME NEW b \in Accounts, b.open = a.open \ {i}, \A j : Known(b, j) <=> Known(a, j) \/ j = i
      PROVE  WholeAt(b, i + 1)
  <2>1. \A j \in Nat : j < i \/ j = i => j < i + 1
    OBVIOUS
  <2>2. \A j : Known(b, j) => j \in Nat
    BY AccountIs DEF Known
  <2>3. \A j : Known(b, j) => j < i + 1
    BY <1>2, <2>1, <2>2 DEF WholeAt
  <2> QED
    BY <1>1, <1>2, <2>3 DEF WholeAt
<1>3. CASE kind \in {"text", "reasoning"}
  <2>0. PICK k \in {"text", "reasoning"} : k = kind
    BY <1>3
  <2>1. PICK m \in Accounts, n \in Accounts, b \in Accounts :
            /\ Starts(a, i, k, m) /\ Adds(m, i, text, n) /\ EndsBlock(n, i, b)
            /\ Sums(b, More(k, "text", t, text), More(k, "reasoning", r, text), c)
            /\ b.open = a.open \ {i}
            /\ \A j : Known(b, j) <=> Known(a, j) \/ j = i
    <3>1. Spoken(a, i, k, text, t, r, c)
      BY <1>1, SpokenBlock
    <3> QED
      BY <3>1 DEF Spoken
  <2>2. PICK d, e, f : /\ d = BlockStarted(i, k) /\ e = Delta("text_delta", i, text)
                       /\ f = IF k = "text" THEN BlockDone(i) ELSE SignedBlockDone(i)
    OBVIOUS
  <2>3. queue = <<d, e, f>>
    BY <2>0, <2>2 DEF WholeBlock
  <2>4. /\ d \in CoreEvent /\ Follows(a, d, m)
        /\ e \in CoreEvent /\ Follows(m, e, n)
        /\ f \in CoreEvent /\ Follows(n, f, b)
    <3>1. d \in CoreEvent /\ Follows(a, d, m)
      BY <2>1, <2>2, FollowsStart
    <3>2. e \in CoreEvent /\ Follows(m, e, n)
      BY <2>1, <2>2, FollowsText
    <3>3. f \in CoreEvent /\ Follows(n, f, b)
      BY <2>1, <2>2, FollowsDone
    <3> QED
      BY <3>1, <3>2, <3>3
  <2>5. Runs(a, queue, b)
    BY <2>3, <2>4, RunsThree
  <2>6. WholeAt(b, i + 1)
    BY <1>2, <2>1
  <2> QED
    BY <1>3, <2>0, <2>1, <2>5, <2>6
<1>4. CASE kind = "tool_use"
  <2>1. PICK m \in Accounts, b \in Accounts :
            /\ Starts(a, i, "tool_use", m) /\ EndsArgs(m, i, text, b) /\ EndsBlock(b, i, b)
            /\ Sums(b, t, r, Append(c, text)) /\ b.open = a.open \ {i}
            /\ \A j : Known(b, j) <=> Known(a, j) \/ j = i
    BY <1>1, CallEnds
  <2>2. PICK d, e, f : /\ d = BlockStarted(i, "tool_use") /\ e = Delta("args_done", i, text)
                       /\ f = BlockDone(i)
    OBVIOUS
  <2>3. queue = <<d, e, f>>
    BY <1>4, <2>2 DEF WholeBlock
  <2>4. /\ d \in CoreEvent /\ Follows(a, d, m)
        /\ e \in CoreEvent /\ Follows(m, e, b)
        /\ f \in CoreEvent /\ Follows(b, f, b)
    <3>1. d \in CoreEvent /\ Follows(a, d, m)
      BY <2>1, <2>2, FollowsStart
    <3>2. e \in CoreEvent /\ Follows(m, e, b)
      BY <2>1, <2>2, FollowsArgsDone
    <3>3. f \in CoreEvent /\ Follows(b, f, b)
      BY <2>1, <2>2, FollowsDone
    <3> QED
      BY <3>1, <3>2, <3>3
  <2>5. Runs(a, queue, b)
    BY <2>3, <2>4, RunsThree
  <2>6. WholeAt(b, i + 1)
    BY <1>2, <2>1
  <2>7. More(kind, "text", t, text) = t /\ More(kind, "reasoning", r, text) = r
    BY <1>4 DEF More
  <2> QED
    BY <1>4, <2>1, <2>5, <2>6, <2>7
<1>5. CASE kind = "empty"
  <2>1. PICK m \in Accounts :
            /\ Starts(a, i, "text", m) /\ Sums(m, t, r, c) /\ m.open = a.open /\ i \in m.begun
            /\ \A j : Known(m, j) <=> Known(a, j) \/ j = i
    BY <1>1, TextBegins
  <2>2. PICK b \in Accounts :
            /\ EndsBlock(m, i, b) /\ Sums(b, t, r, c) /\ b.open = m.open \ {i}
            /\ \A j : Known(b, j) <=> Known(m, j)
    BY <2>1, BegunEnds
  <2>3. PICK d, e : d = BlockStarted(i, "text") /\ e = BlockDone(i) /\ queue = <<d, e>>
    BY <1>5 DEF WholeBlock
  <2>4. /\ d \in CoreEvent /\ Follows(a, d, m)
        /\ e \in CoreEvent /\ Follows(m, e, b)
    <3>1. d \in CoreEvent /\ Follows(a, d, m)
      BY <2>1, <2>3, FollowsStart
    <3>2. e \in CoreEvent /\ Follows(m, e, b)
      BY <2>2, <2>3, FollowsDone
    <3> QED
      BY <3>1, <3>2
  <2>5. Runs(a, queue, b)
    BY <2>3, <2>4, RunsTwo
  <2>6. WholeAt(b, i + 1)
    BY <1>2, <2>1, <2>2
  <2>7. More(kind, "text", t, text) = t /\ More(kind, "reasoning", r, text) = r
    BY <1>5 DEF More
  <2> QED
    BY <1>5, <2>2, <2>5, <2>6, <2>7
<1> QED
  BY <1>3, <1>4, <1>5

LEMMA WholeRest ==
  ASSUME protocol' \in Whole, provider'.phase = "open", NEW b,
         Sums(b, given'.text, given'.reasoning, given'.calls), WholeAt(b, provider'.index)
  PROVE  Rest(b)'
  BY DEF Rest, Whole

LEMMA WholeNextGoes ==
  ASSUME WholeNextBlock, ProviderTyped, NEW a \in Accounts, Rest(a), habits' = {}
  PROVE  Goes(a)
<1>1. provider \in Provider /\ GivenTyped
  BY DEF ProviderTyped
<1>2. PICK i \in Nat, text \in Pieces : i = provider.index /\ text = Piece /\ text # <<>>
  BY <1>1, ProviderFields
<1>3. protocol \in Whole /\ protocol' \in Whole /\ provider.phase = "open"
  BY DEF WholeNextBlock, ReadyWhole, Quiet
<1>4. PICK t, r, c : t = given.text /\ r = given.reasoning /\ c = given.calls
  OBVIOUS
<1>5. Sums(a, t, r, c) /\ WholeAt(a, i)
  BY <1>2, <1>3, <1>4 DEF Rest
<1>6. PICK kind \in {"reasoning", "tool_use", "text", "empty"} :
         /\ core' = WholeBlock(kind, i, text) /\ Sends("open", "none", i + 1, 1)
         /\ CASE kind = "tool_use" -> given' = [given EXCEPT !.calls = Append(@, text)]
              [] kind = "text" -> Gave("text")
              [] kind = "reasoning" -> given' = [given EXCEPT !.reasoning = @ \o Piece,
                                                              !.signed = @ \cup {provider.index}]
              [] OTHER -> UNCHANGED given
  <2>1. \A h : habits \cup {h} # {}
    OBVIOUS
  <2> QED
    BY <1>2, <2>1 DEF WholeNextBlock
<1>7. provider'.phase = "open" /\ provider'.index = i + 1
  BY <1>1, <1>6, SendsTo
<1>8. PICK queue : queue = WholeBlock(kind, i, text)
  OBVIOUS
<1>9. PICK b \in Accounts :
        /\ Runs(a, queue, b) /\ WholeAt(b, i + 1)
        /\ Sums(b, More(kind, "text", t, text), More(kind, "reasoning", r, text),
                IF kind = "tool_use" THEN Append(c, text) ELSE c)
  BY <1>2, <1>5, <1>8, WholeRuns
<1>10. /\ given'.text = More(kind, "text", t, text) /\ given'.reasoning = More(kind, "reasoning", r, text)
       /\ given'.calls = IF kind = "tool_use" THEN Append(c, text) ELSE c
  <2>1. CASE kind = "tool_use"
    BY <1>1, <1>4, <1>6, <2>1, GivenCall DEF More
  <2>2. CASE kind = "text"
    BY <1>1, <1>2, <1>4, <1>6, <2>2, GivenText DEF More
  <2>3. CASE kind = "reasoning"
    BY <1>1, <1>2, <1>4, <1>6, <2>3, GivenReasoning DEF More
  <2>4. CASE kind = "empty"
    BY <1>1, <1>4, <1>6, <2>4 DEF More
  <2> QED
    BY <2>1, <2>2, <2>3, <2>4
<1>11. Sums(b, given'.text, given'.reasoning, given'.calls)
  BY <1>9, <1>10
<1>12. WholeAt(b, provider'.index)
  BY <1>7, <1>9
<1>13. Rest(b)'
  BY <1>3, <1>7, <1>11, <1>12, WholeRest
<1> QED
  BY <1>6, <1>8, <1>9, <1>13 DEF Goes

-----------------------------------------------------------------------------
(* The events that no item is made of *)

LEMMA PlainRest ==
  ASSUME NEW b, Sums(b, given'.text, given'.reasoning, given'.calls),
         \/ provider'.phase = "broken"
         \/ provider'.phase \in {"stopped", "closed"} /\ b.open = {}
         \/ provider'.phase = "open" /\ protocol' = "anthropic"
            /\ AnthropicAt(b, provider'.index, provider'.block, conv'.suppressText)
         \/ provider'.phase = "open" /\ protocol' \in Whole /\ WholeAt(b, provider'.index)
  PROVE  Rest(b)'
  BY DEF Rest, Whole

LEMMA BrokenRest == ASSUME NEW b, provider'.phase = "broken" PROVE Rest(b)'
  BY DEF Rest

LEMMA BlankAt == AnthropicAt(Blank, 0, "none", {}) /\ WholeAt(Blank, 0)
  BY BlankIs DEF AnthropicAt, WholeAt, Forwarded

LEMMA PlainGoes ==
  ASSUME MessageStart \/ MessageDelta \/ MessageStop \/ Breaks \/ ChannelClosed \/ WholeStart \/ WholeEnd,
         ProviderTyped, NEW a \in Accounts, Rest(a)
  PROVE  Goes(a)
<1>1. provider \in Provider /\ GivenTyped /\ 0 \in Nat /\ provider.index \in Nat
  BY ProviderFields DEF ProviderTyped
<1>2. PICK u \in CoreEvent, v \in CoreEvent, w \in CoreEvent :
        /\ u = Core("created") /\ v = Core("item_added") /\ w = Core("in_progress")
        /\ Follows(a, u, a) /\ Follows(a, v, a) /\ Follows(a, w, a)
  BY FollowsPlain DEF Plain
<1>3. Runs(a, <<u, v>>, a) /\ Runs(a, <<u, w>>, a) /\ Runs(a, <<u>>, a)
  BY <1>2, RunsTwo, RunsOne
<1>4. \A type \in Plain : Runs(a, <<Core(type)>>, a)
  BY FollowsPlain, RunsOne
<1>5. /\ given' = given /\ conv' = conv /\ protocol' = protocol
  BY DEF MessageStart, MessageDelta, MessageStop, Breaks, ChannelClosed, WholeStart, WholeEnd, Quiet
<1>6. Runs(a, core', a)
  <2>1. CASE MessageStart
    BY <1>2, <1>3, <2>1 DEF MessageStart
  <2>2. CASE WholeStart
    <3>1. <<u>> \o <<w>> = Append(<<u>>, w) /\ <<u>> \o <<>> = <<u>> /\ Append(<<u>>, w) = <<u, w>>
      <4>1. <<u>> \in Seq(CoreEvent)
        OBVIOUS
      <4> QED
        BY <4>1, Joins, ShortQueues
    <3>2. core' \in {<<u>>, <<u, w>>}
      BY <1>2, <2>2, <3>1 DEF WholeStart
    <3> QED
      BY <1>3, <3>2
  <2>3. CASE MessageDelta \/ MessageStop \/ Breaks \/ ChannelClosed \/ WholeEnd
    <3>1. \E type \in Plain : core' = <<Core(type)>>
      BY <2>3 DEF MessageDelta, MessageStop, Breaks, ChannelClosed, WholeEnd, Plain
    <3> QED
      BY <1>4, <3>1
  <2> QED
    BY <2>1, <2>2, <2>3
<1>7. Rest(a)'
  <2>1. CASE Breaks
    BY <1>1, <2>1, SendsTo, BrokenRest DEF Breaks
  <2>2. CASE ChannelClosed
    <3>1. provider'.phase = IF provider.phase = "stopped" THEN "closed" ELSE "broken"
      BY <1>1, <2>2 DEF ChannelClosed, Provider
    <3>2. provider.phase = "stopped" => Sums(a, given.text, given.reasoning, given.calls) /\ a.open = {}
      BY DEF Rest
    <3> QED
      BY <1>5, <3>1, <3>2, PlainRest, BrokenRest
  <2>3. CASE MessageStart
    <3>1. /\ protocol' = "anthropic" /\ provider'.phase = "open" /\ provider'.block = "none"
          /\ provider'.index = 0
      BY <1>1, <1>5, <2>3, SendsTo DEF MessageStart, Ready
    <3>2. a = Blank /\ conv.suppressText = {} /\ Sums(a, given.text, given.reasoning, given.calls)
      BY <2>3 DEF MessageStart, Ready, Rest
    <3>3. AnthropicAt(a, provider'.index, provider'.block, conv'.suppressText)
      BY <1>5, <3>1, <3>2, BlankAt
    <3> QED
      BY <1>5, <3>1, <3>2, <3>3, PlainRest
  <2>4. CASE WholeStart
    <3>1. protocol' \in Whole /\ provider'.phase = "open" /\ provider'.index = 0
      BY <1>1, <1>5, <2>4, SendsTo DEF WholeStart, ReadyWhole
    <3>2. a = Blank /\ Sums(a, given.text, given.reasoning, given.calls)
      BY <2>4 DEF WholeStart, ReadyWhole, Rest
    <3>3. WholeAt(a, provider'.index)
      BY <3>1, <3>2, BlankAt
    <3> QED
      BY <1>5, <3>1, <3>2, <3>3, PlainRest
  <2>5. CASE MessageDelta
    <3>1. provider'.phase = "stopped"
      BY <1>1, <2>5, SendsTo DEF MessageDelta
    <3>2. AnthropicAt(a, provider.index, "none", conv.suppressText) /\ Sums(a, given.text, given.reasoning, given.calls)
      BY <2>5 DEF MessageDelta, Ready, Rest
    <3>3. a.open = {}
      BY <3>2 DEF AnthropicAt, Forwarded
    <3> QED
      BY <1>5, <3>1, <3>2, <3>3, PlainRest
  <2>6. CASE MessageStop
    <3>1. provider'.phase = "closed"
      BY <1>1, <2>6, SendsTo DEF MessageStop
    <3>2. a.open = {} /\ Sums(a, given.text, given.reasoning, given.calls)
      BY <2>6 DEF MessageStop, Ready, Rest
    <3> QED
      BY <1>5, <3>1, <3>2, PlainRest
  <2>7. CASE WholeEnd
    <3>1. provider'.phase = "closed"
      BY <1>1, <2>7, SendsTo DEF WholeEnd
    <3>2. WholeAt(a, provider.index) /\ Sums(a, given.text, given.reasoning, given.calls)
      BY <2>7 DEF WholeEnd, ReadyWhole, Rest
    <3>3. a.open = {}
      BY <3>2 DEF WholeAt
    <3> QED
      BY <1>5, <3>1, <3>2, <3>3, PlainRest
  <2> QED
    BY <2>1, <2>2, <2>3, <2>4, <2>5, <2>6, <2>7
<1> QED
  BY <1>6, <1>7 DEF Goes

-----------------------------------------------------------------------------
(***************************************************************************)
(* Chat Completions. Before the calls, the current block is the last.      *)
(***************************************************************************)

ChatPart(a, b, block, reasons) ==
    /\ block \in {"none", "thinking", "text", "tool_use"}
    /\ \A j : Known(a, j) => j <= b
    /\ \/ b \in a.begun /\ a.open = {}
       \/ b \notin a.begun /\ a.open = {b} /\ ~ IsCall(a, b)
    /\ block = "none" => ~ reasons /\ b \in a.begun
    /\ block = "thinking" => reasons /\ Current(a, b, "reasoning")
    /\ block = "text" => ~ reasons /\ Current(a, b, "message")

LEMMA PartIs ==
  ASSUME NEW a, NEW b \in Nat, NEW block, NEW reasons
  PROVE  ChatBlockAt(a, b, 0, block, reasons) <=> ChatPart(a, b, block, reasons)
<1>1. b + 0 = b /\ (b + 1)..b = {}
  OBVIOUS
<1> QED
  BY <1>1 DEF ChatBlockAt, ChatPart

LEMMA NoCallsAt ==
  ASSUME NEW a \in Accounts, NEW b, NEW m \in Nat
  PROVE  /\ CallsAt(a, b, <<>>, m) => NoCalls(a)
         /\ NoCalls(a) => \E k \in Nat : CallsAt(a, b, <<>>, k)
<1>1. Len(<<>>) = 0 /\ Len(a.items) \in Nat
  BY AccountIs
<1>2. PICK n \in Nat : n = Len(a.items)
  BY <1>1
<1>3. n + 0 = n /\ m + 0 = m /\ 1..0 = {}
  OBVIOUS
<1>4. CallsAt(a, b, <<>>, m) => NoCalls(a)
  BY <1>1, <1>3 DEF CallsAt, NoCalls
<1>5. NoCalls(a) => CallsAt(a, b, <<>>, n)
  BY <1>1, <1>2, <1>3 DEF CallsAt, NoCalls
<1> QED
  BY <1>4, <1>5

\* The current block of text has more of it.
LEMMA ChatTextAdds ==
  ASSUME NEW a \in Accounts, NEW b \in Nat, NEW block \in {"none", "text"}, ChatPart(a, b, block, FALSE),
         NoCalls(a), NEW text \in Pieces, NEW t, NEW r, NEW c, Sums(a, t, r, c)
  PROVE  \E m \in Accounts :
            /\ Adds(a, b, text, m) /\ ChatPart(m, b, "text", FALSE) /\ NoCalls(m)
            /\ Sums(m, t \o text, r, c)
<1>1. CASE block = "none"
  <2>1. b \in a.begun /\ a.open = {}
    BY <1>1, AccountIs DEF ChatPart, Placing
  <2>2. PICK m \in Accounts :
          /\ Adds(a, b, text, m) /\ Current(m, b, "message") /\ Sums(m, t \o text, r, c)
          /\ m.open = a.open \cup {b} /\ m.begun = a.begun \ {b}
          /\ \A j : Known(m, j) <=> Known(a, j)
          /\ NoCalls(a) => NoCalls(m)
    BY <2>1, BegunAdds
  <2>3. ~ IsCall(m, b)
    BY <2>2, CurrentIs DEF IsCall
  <2>4. ChatPart(m, b, "text", FALSE)
    BY <2>1, <2>2, <2>3 DEF ChatPart
  <2> QED
    BY <2>2, <2>4
<1>2. CASE block = "text"
  <2>1. Current(a, b, "message")
    BY <1>2 DEF ChatPart
  <2>2. PICK m \in Accounts :
          /\ Adds(a, b, text, m) /\ Current(m, b, "message")
          /\ Sums(m, More("message", "message", t, text), More("message", "reasoning", r, text), c)
          /\ m.open = a.open /\ m.begun = a.begun
          /\ \A j : Known(m, j) <=> Known(a, j)
          /\ NoCalls(a) => NoCalls(m)
    BY <2>1, CurrentAdds
  <2>3. ~ IsCall(m, b)
    BY <2>2, CurrentIs DEF IsCall
  <2>4. ChatPart(m, b, "text", FALSE)
    BY <1>2, <2>2, <2>3 DEF ChatPart
  <2>5. Sums(m, t \o text, r, c)
    BY <2>2 DEF More
  <2> QED
    BY <2>2, <2>4, <2>5
<1> QED
  BY <1>1, <1>2

\* The reasoning goes on.
LEMMA ChatReasoningAdds ==
  ASSUME NEW a \in Accounts, NEW b \in Nat, ChatPart(a, b, "thinking", TRUE),
         NoCalls(a), NEW text \in Pieces, NEW t, NEW r, NEW c, Sums(a, t, r, c)
  PROVE  \E m \in Accounts :
            /\ Adds(a, b, text, m) /\ ChatPart(m, b, "thinking", TRUE) /\ NoCalls(m)
            /\ Sums(m, t, r \o text, c)
<1>1. Current(a, b, "reasoning")
  BY DEF ChatPart
<1>2. PICK m \in Accounts :
        /\ Adds(a, b, text, m) /\ Current(m, b, "reasoning")
        /\ Sums(m, More("reasoning", "message", t, text), More("reasoning", "reasoning", r, text), c)
        /\ m.open = a.open /\ m.begun = a.begun
        /\ \A j : Known(m, j) <=> Known(a, j)
        /\ NoCalls(a) => NoCalls(m)
  BY <1>1, CurrentAdds
<1>3. ~ IsCall(m, b)
  BY <1>2, CurrentIs DEF IsCall
<1>4. ChatPart(m, b, "thinking", TRUE)
  BY <1>2, <1>3 DEF ChatPart
<1>5. Sums(m, t, r \o text, c)
  BY <1>2 DEF More
<1> QED
  BY <1>2, <1>4, <1>5

\* The text begins, behind the reasoning.
LEMMA ChatTextBegins ==
  ASSUME NEW a \in Accounts, NEW b \in Nat, ChatPart(a, b, "thinking", TRUE),
         NoCalls(a), NEW text \in Pieces, NEW t, NEW r, NEW c, Sums(a, t, r, c)
  PROVE  \E k \in Accounts, m \in Accounts, n \in Accounts :
            /\ EndsBlock(a, b, k) /\ Starts(k, b + 1, "text", m) /\ Adds(m, b + 1, text, n)
            /\ ChatPart(n, b + 1, "text", FALSE) /\ NoCalls(n)
            /\ Sums(n, t \o text, r, c)
<1>1. PICK i \in Nat : i = b + 1 /\ ~ (i <= b)
  OBVIOUS
<1>2. \A j : Known(a, j) => j \in Nat /\ j <= b /\ j <= i
  <2>1. \A j \in Nat : j <= b => j <= i
    BY <1>1
  <2> QED
    BY <2>1, AccountIs DEF ChatPart, Known
<1>3. b \in a.open /\ a.open = {b} /\ i \notin a.begun
  BY <1>1, <1>2, CurrentIs DEF ChatPart, Known
<1>4. PICK k \in Accounts :
        /\ EndsBlock(a, b, k) /\ Sums(k, t, r, c)
        /\ k.open = a.open \ {b} /\ k.begun = a.begun /\ k.items = a.items
        /\ \A j : Known(k, j) <=> Known(a, j)
  BY <1>3, OpenEnds
<1>5. NoCalls(k) /\ k.open = {} /\ ~ Known(k, i)
  BY <1>1, <1>2, <1>3, <1>4 DEF NoCalls
<1>6. PICK m \in Accounts :
        /\ Starts(k, i, "text", m) /\ Sums(m, t, r, c)
        /\ m.open = k.open /\ m.begun = k.begun \cup {i} /\ m.items = k.items
        /\ \A j : Known(m, j) <=> Known(k, j) \/ j = i
  BY <1>4, <1>5, TextBegins
<1>7. NoCalls(m) /\ i \in m.begun /\ m.open = {}
  BY <1>5, <1>6 DEF NoCalls
<1>8. ChatPart(m, i, "none", FALSE)
  BY <1>2, <1>4, <1>6, <1>7 DEF ChatPart
<1>9. PICK n \in Accounts :
        /\ Adds(m, i, text, n) /\ ChatPart(n, i, "text", FALSE) /\ NoCalls(n) /\ Sums(n, t \o text, r, c)
  BY <1>6, <1>7, <1>8, ChatTextAdds
<1> QED
  BY <1>1, <1>4, <1>6, <1>9

\* The reasoning begins, behind a block of text that has nothing.
LEMMA ChatReasoningBegins ==
  ASSUME NEW a \in Accounts, NEW b \in Nat, ChatPart(a, b, "none", FALSE),
         NoCalls(a), NEW text \in Pieces, NEW t, NEW r, NEW c, Sums(a, t, r, c)
  PROVE  \E m \in Accounts, n \in Accounts :
            /\ EndsBlock(a, b + 1, a) /\ Starts(a, b + 1, "reasoning", m) /\ Adds(m, b + 1, text, n)
            /\ ChatPart(n, b + 1, "thinking", TRUE) /\ NoCalls(n)
            /\ Sums(n, t, r \o text, c)
<1>1. PICK i \in Nat : i = b + 1 /\ ~ (i <= b) /\ i <= i
  OBVIOUS
<1>2. \A j : Known(a, j) => j \in Nat /\ j <= b /\ j <= i
  <2>1. \A j \in Nat : j <= b => j <= i
    BY <1>1
  <2> QED
    BY <2>1, AccountIs DEF ChatPart, Known
<1>3. ~ Known(a, i) /\ a.open = {} /\ i \notin a.begun
  BY <1>1, <1>2, AccountIs DEF ChatPart, Placing, Known
<1>4. EndsBlock(a, i, a)
  BY <1>3 DEF EndsBlock
<1>5. PICK m \in Accounts :
        /\ Starts(a, i, "reasoning", m) /\ Current(m, i, "reasoning")
        /\ Sums(m, t, r, c) /\ m.open = a.open \cup {i} /\ m.begun = a.begun
        /\ \A j : Known(m, j) <=> Known(a, j) \/ j = i
        /\ NoCalls(a) => NoCalls(m)
  BY <1>3, ItemBegins
<1>6. ~ IsCall(m, i)
  BY <1>5, CurrentIs DEF IsCall
<1>7. ChatPart(m, i, "thinking", TRUE)
  BY <1>1, <1>2, <1>3, <1>5, <1>6 DEF ChatPart
<1>8. PICK n \in Accounts :
        /\ Adds(m, i, text, n) /\ ChatPart(n, i, "thinking", TRUE) /\ NoCalls(n) /\ Sums(n, t, r \o text, c)
  BY <1>5, <1>7, ChatReasoningAdds
<1> QED
  BY <1>1, <1>4, <1>5, <1>8

LEMMA ChatRest ==
  ASSUME protocol' = "chat", provider'.phase = "open", NEW b,
         Sums(b, given'.text, given'.reasoning, given'.calls),
         ChatAt(b, conv', provider'.block, given'.calls)
  PROVE  Rest(b)'
  BY DEF Rest, Whole

\* Before the calls.
LEMMA ChatPartOf ==
  ASSUME NEW a \in Accounts, NEW st, NEW b \in Nat, st.blockIndex = b, NEW block, block # "tool_use",
         NEW calls \in Seq(Pieces), ChatAt(a, st, block, calls)
  PROVE  calls = <<>> /\ SlotsAt(st, b, 0) /\ NoCalls(a) /\ ChatPart(a, b, block, st.hasReasoning)
<1>1. SlotsAt(st, b, Len(calls)) /\ ChatBlockAt(a, b, Len(calls), block, st.hasReasoning)
  BY DEF ChatAt
<1>2. Len(calls) = 0
  BY <1>1 DEF ChatBlockAt
<1>3. calls = <<>>
  BY <1>2
<1>4. PICK m \in Nat : CallsAt(a, b, <<>>, m)
  BY <1>3 DEF ChatAt
<1>5. PICK reasons : reasons = st.hasReasoning
  OBVIOUS
<1>6. ChatBlockAt(a, b, 0, block, reasons)
  BY <1>1, <1>2, <1>5
<1>7. ChatPart(a, b, block, reasons)
  BY <1>6, PartIs
<1>8. NoCalls(a)
  BY <1>4, NoCallsAt
<1> QED
  BY <1>1, <1>2, <1>3, <1>5, <1>7, <1>8

LEMMA ChatPartNext ==
  ASSUME NEW a \in Accounts, NEW st, NEW b \in Nat, st.blockIndex = b, NEW block, NEW reasons,
         st.hasReasoning = reasons, SlotsAt(st, b, 0), NoCalls(a), ChatPart(a, b, block, reasons)
  PROVE  ChatAt(a, st, block, <<>>)
<1>1. ChatBlockAt(a, b, 0, block, reasons)
  BY PartIs
<1>2. \E m \in Nat : CallsAt(a, b, <<>>, m)
  BY NoCallsAt
<1>3. Len(<<>>) = 0
  OBVIOUS
<1> QED
  BY <1>1, <1>2, <1>3 DEF ChatAt

LEMMA SlotsNone ==
  ASSUME NEW st, NEW b \in Nat, NEW tt, NEW c \in Nat, SlotsAt(st, b, 0),
         tt.toolCallSlot = st.toolCallSlot, tt.callStarted = st.callStarted, tt.toolCallIdx = st.toolCallIdx
  PROVE  SlotsAt(tt, c, 0)
<1>1. (b + 1)..(b + 0) = {} /\ (c + 1)..(c + 0) = {} /\ 0..(0 - 1) = {}
  OBVIOUS
<1> QED
  BY <1>1 DEF SlotsAt

\* The first chunk.
LEMMA ChatBegins ==
  ASSUME NEW text \in Pieces
  PROVE  /\ \E m \in Accounts, n \in Accounts :
              /\ Starts(Blank, 0, "text", m) /\ ChatPart(m, 0, "none", FALSE) /\ NoCalls(m)
              /\ Sums(m, <<>>, <<>>, <<>>)
              /\ Adds(m, 0, text, n) /\ ChatPart(n, 0, "text", FALSE) /\ NoCalls(n)
              /\ Sums(n, <<>> \o text, <<>>, <<>>)
         /\ \E m \in Accounts, n \in Accounts :
              /\ Starts(Blank, 0, "reasoning", m)
              /\ Adds(m, 0, text, n) /\ ChatPart(n, 0, "thinking", TRUE) /\ NoCalls(n)
              /\ Sums(n, <<>>, <<>> \o text, <<>>)
<1>1. PICK a \in Accounts, i \in Nat, e \in {<<>>} : a = Blank /\ i = 0 /\ e = <<>>
  BY BlankIs
<1>2. Sums(a, e, e, e) /\ ~ Known(a, i) /\ a.open = {} /\ \A j : ~ Known(a, j)
  BY <1>1, BlankIs
<1>3. NoCalls(a) /\ i \notin a.begun
  <2>1. a.items = <<>> /\ a.begun = {}
    BY <1>1 DEF Blank
  <2> QED
    BY <2>1 DEF NoCalls
<1>4. i <= i
  OBVIOUS
<1>5. PICK m \in Accounts :
        /\ Starts(a, i, "text", m) /\ Sums(m, e, e, e)
        /\ m.open = a.open /\ m.begun = a.begun \cup {i} /\ m.items = a.items
        /\ \A j : Known(m, j) <=> Known(a, j) \/ j = i
  BY <1>2, TextBegins
<1>6. ChatPart(m, i, "none", FALSE) /\ NoCalls(m)
  BY <1>2, <1>3, <1>4, <1>5 DEF ChatPart, NoCalls
<1>7. PICK n \in Accounts :
        /\ Adds(m, i, text, n) /\ ChatPart(n, i, "text", FALSE) /\ NoCalls(n) /\ Sums(n, e \o text, e, e)
  BY <1>5, <1>6, ChatTextAdds
<1>8. PICK u \in Accounts :
        /\ Starts(a, i, "reasoning", u) /\ Current(u, i, "reasoning")
        /\ Sums(u, e, e, e) /\ u.open = a.open \cup {i} /\ u.begun = a.begun
        /\ \A j : Known(u, j) <=> Known(a, j) \/ j = i
        /\ NoCalls(a) => NoCalls(u)
  BY <1>2, ItemBegins
<1>9. ~ IsCall(u, i)
  BY <1>8, CurrentIs DEF IsCall
<1>10. ChatPart(u, i, "thinking", TRUE)
  BY <1>2, <1>3, <1>4, <1>8, <1>9 DEF ChatPart
<1>11. PICK v \in Accounts :
        /\ Adds(u, i, text, v) /\ ChatPart(v, i, "thinking", TRUE) /\ NoCalls(v) /\ Sums(v, e, e \o text, e)
  BY <1>3, <1>8, <1>10, ChatReasoningAdds
<1> QED
  BY <1>1, <1>5, <1>6, <1>7, <1>8, <1>11

LEMMA ChatRoleGoes ==
  ASSUME ChatRole, ProviderTyped, NEW a \in Accounts, Rest(a), NEW fits, Can(fits)
  PROVE  Goes(a)
<1>1. provider \in Provider /\ GivenTyped /\ protocol = "chat" /\ provider.phase = "start" /\ conv = ChatConv
  BY DEF ChatRole, Ready, ProviderTyped, Can, StartCan
<1>2. a = Blank /\ Sums(a, given.text, given.reasoning, given.calls)
  BY <1>1 DEF Rest
<1>3. given.text = <<>> /\ given.reasoning = <<>> /\ given.calls = <<>>
  BY <1>2, BlankIs DEF Sums
<1>4. PICK text \in Pieces, e \in Pieces, i \in Nat : text = Piece /\ text # <<>> /\ e = <<>> /\ i = 0
  <2>1. <<>> \in Pieces
    BY DEF Pieces
  <2> QED
    BY <1>1, <2>1, ProviderFields
<1>5. <<>> \o text = text
  <2>1. text \in Seq(Nat)
    BY DEF Pieces
  <2> QED
    BY <2>1, ConcatEmptySeq
<1>6. PICK m \in Accounts, n \in Accounts :
        /\ Starts(a, i, "text", m) /\ ChatPart(m, i, "none", FALSE) /\ NoCalls(m)
        /\ Sums(m, <<>>, <<>>, <<>>)
        /\ Adds(m, i, text, n) /\ ChatPart(n, i, "text", FALSE) /\ NoCalls(n)
        /\ Sums(n, text, <<>>, <<>>)
  BY <1>2, <1>4, <1>5, ChatBegins
<1>7. PICK u \in Accounts, v \in Accounts :
        /\ Starts(a, i, "reasoning", u)
        /\ Adds(u, i, text, v) /\ ChatPart(v, i, "thinking", TRUE) /\ NoCalls(v)
        /\ Sums(v, <<>>, text, <<>>)
  BY <1>2, <1>4, <1>5, ChatBegins
<1>8. ASSUME NEW reasoning \in Pieces, NEW content \in Pieces, reasoning = <<>> \/ content = <<>>,
             NEW kind, NEW pieces,
             ChatReceives(Chunk(TRUE, reasoning, content, 0, "none", <<>>, FALSE), kind, pieces, "open"),
             NEW b \in Accounts, NEW part, NEW thinks, thinks = (reasoning # <<>>), part = kind,
             ChatPart(b, i, part, thinks), NoCalls(b),
             Sums(b, given'.text, given'.reasoning, given'.calls), given'.calls = <<>>
      PROVE  Rest(b)' /\ \E chunk : core' = ChatConvert(chunk).out /\ RoleConverts(chunk, reasoning, content)
  <2>1. PICK chunk : /\ chunk = Chunk(TRUE, reasoning, content, 0, "none", <<>>, FALSE)
                     /\ ChatReceives(chunk, kind, pieces, "open")
    BY <1>8
  <2>2. /\ provider'.phase = "open" /\ provider'.block = kind /\ protocol' = "chat"
        /\ conv' = ChatConvert(chunk).st /\ core' = ChatConvert(chunk).out
    BY <1>1, <2>1, ReceivesTo
  <2>3. RoleConverts(chunk, reasoning, content)
    BY <1>1, <1>8, <2>1, ConvertsRole
  <2>4. conv' = [ChatConv EXCEPT !.started = TRUE, !.hasReasoning = thinks, !.reasonIndex = 0]
    BY <1>8, <2>2, <2>3 DEF RoleConverts
  <2>5. /\ conv'.blockIndex = i /\ conv'.hasReasoning = thinks /\ conv'.toolCallSlot = <<>>
        /\ conv'.callStarted = {} /\ conv'.toolCallIdx = 0
    BY <1>4, <2>4 DEF ChatConv
  <2>6. SlotsAt(conv', i, 0)
    <3>1. (i + 1)..(i + 0) = {} /\ 0..(0 - 1) = {}
      OBVIOUS
    <3>2. DOMAIN conv'.toolCallSlot = {}
      BY <2>5
    <3> QED
      BY <2>5, <3>1, <3>2 DEF SlotsAt
  <2>7. PICK st : st = conv'
    OBVIOUS
  <2>8. ChatAt(b, st, kind, <<>>)
    BY <1>8, <2>5, <2>6, <2>7, ChatPartNext
  <2>9. Rest(b)'
    BY <1>8, <2>2, <2>7, <2>8, ChatRest
  <2> QED
    BY <2>2, <2>3, <2>9
<1>9. CASE /\ ChatReceives(Chunk(TRUE, <<>>, <<>>, 0, "none", <<>>, FALSE), "none", 0, "open")
           /\ UNCHANGED given
  <2>1. Rest(m)' /\ \E chunk : core' = ChatConvert(chunk).out /\ RoleConverts(chunk, e, e)
    BY <1>3, <1>4, <1>6, <1>8, <1>9
  <2>2. core' = <<BlockStarted(i, "text")>>
    BY <1>4, <2>1 DEF RoleConverts
  <2>3. Runs(a, core', m)
    BY <1>6, <2>2, FollowsStart, RunsOne
  <2> QED
    BY <2>1, <2>3 DEF Goes
<1>10. CASE /\ ChatReceives(Chunk(TRUE, Piece, <<>>, 0, "none", <<>>, FALSE), "thinking", 1, "open")
            /\ Gave("reasoning")
  <2>1. given'.text = <<>> /\ given'.reasoning = text /\ given'.calls = <<>>
    BY <1>1, <1>3, <1>4, <1>5, <1>10, GivenReasoning
  <2>2. Rest(v)' /\ \E chunk : core' = ChatConvert(chunk).out /\ RoleConverts(chunk, text, e)
    BY <1>4, <1>7, <1>8, <1>10, <2>1
  <2>3. core' = <<BlockStarted(i, "reasoning"), Delta("text_delta", i, text)>>
    BY <1>4, <2>2 DEF RoleConverts
  <2>4. Runs(a, core', v)
    BY <1>7, <2>3, FollowsStart, FollowsText, RunsTwo
  <2> QED
    BY <2>2, <2>4 DEF Goes
<1>11. CASE /\ ChatReceives(Chunk(TRUE, <<>>, Piece, 0, "none", <<>>, FALSE), "text", 1, "open")
            /\ Gave("text")
  <2>1. given'.text = text /\ given'.reasoning = <<>> /\ given'.calls = <<>>
    BY <1>1, <1>3, <1>4, <1>5, <1>11, GivenText
  <2>2. Rest(n)' /\ \E chunk : core' = ChatConvert(chunk).out /\ RoleConverts(chunk, e, text)
    BY <1>4, <1>6, <1>8, <1>11, <2>1
  <2>3. core' = <<BlockStarted(i, "text"), Delta("text_delta", i, text)>>
    BY <1>4, <2>2 DEF RoleConverts
  <2>4. Runs(a, core', n)
    BY <1>6, <2>3, FollowsStart, FollowsText, RunsTwo
  <2> QED
    BY <2>2, <2>4 DEF Goes
<1> QED
  BY <1>9, <1>10, <1>11 DEF ChatRole

\* A chunk before the calls.
LEMMA ChatNowAt ==
  ASSUME protocol = "chat", provider.phase = "open", ProviderTyped, NEW a \in Accounts, Rest(a),
         NEW fits, Can(fits)
  PROVE  /\ provider \in Provider /\ GivenTyped /\ conv \in ChatState /\ conv.started
         /\ conv.blockIndex \in Nat /\ conv.hasReasoning \in BOOLEAN
         /\ conv.hasReasoning => conv.reasonIndex = conv.blockIndex
         /\ Sums(a, given.text, given.reasoning, given.calls) /\ given.calls \in Seq(Pieces)
         /\ ChatAt(a, conv, provider.block, given.calls)
<1>1. provider \in Provider /\ GivenTyped /\ ConvTyped
  BY DEF ProviderTyped
<1>2. /\ conv \in ChatState /\ conv.started
      /\ conv.hasReasoning => conv.reasonIndex = conv.blockIndex
  BY <1>1, ChatNow
<1>3. conv.blockIndex \in Nat /\ conv.hasReasoning \in BOOLEAN
  BY <1>2 DEF ChatState
<1>4. given.calls \in Seq(Pieces)
  BY <1>1 DEF GivenTyped
<1>5. Sums(a, given.text, given.reasoning, given.calls) /\ ChatAt(a, conv, provider.block, given.calls)
  BY DEF Rest
<1> QED
  BY <1>1, <1>2, <1>3, <1>4, <1>5

\* What comes of such a chunk.
LEMMA ChatPartRest ==
  ASSUME protocol' = "chat", provider'.phase = "open", NEW st, st = conv, NEW b \in Nat, SlotsAt(st, b, 0),
         conv'.toolCallSlot = st.toolCallSlot, conv'.callStarted = st.callStarted,
         conv'.toolCallIdx = st.toolCallIdx, NEW c \in Nat, conv'.blockIndex = c,
         NEW m \in Accounts, NoCalls(m), NEW block, block = provider'.block,
         NEW reasons, conv'.hasReasoning = reasons, ChatPart(m, c, block, reasons),
         Sums(m, given'.text, given'.reasoning, given'.calls), given'.calls = <<>>
  PROVE  Rest(m)'
<1>1. PICK tt : tt = conv'
  OBVIOUS
<1>2. SlotsAt(tt, c, 0)
  <2>1. tt.toolCallSlot = st.toolCallSlot /\ tt.callStarted = st.callStarted /\ tt.toolCallIdx = st.toolCallIdx
    BY <1>1
  <2> QED
    BY <2>1, SlotsNone
<1>3. tt.blockIndex = c /\ tt.hasReasoning = reasons
  BY <1>1
<1>4. ChatAt(m, tt, block, <<>>)
  BY <1>2, <1>3, ChatPartNext
<1>5. ChatAt(m, conv', provider'.block, given'.calls)
  BY <1>1, <1>4
<1> QED
  BY <1>5, ChatRest

LEMMA ChatReasoningGoes ==
  ASSUME ChatReasoningChunk, ProviderTyped, NEW a \in Accounts, Rest(a), NEW fits, Can(fits), habits' = {}
  PROVE  Goes(a)
<1>1. protocol = "chat" /\ provider.phase = "open"
  BY DEF ChatReasoningChunk, Ready
<1>0. PICK b \in Nat, reasons \in BOOLEAN : b = conv.blockIndex /\ reasons = conv.hasReasoning
  BY <1>1, ChatNowAt
<1>2. PICK st, block, t, r, c :
        /\ st = conv /\ b = conv.blockIndex /\ reasons = conv.hasReasoning /\ block = provider.block
        /\ t = given.text /\ r = given.reasoning /\ c = given.calls
  BY <1>0
<1>3. /\ provider \in Provider /\ GivenTyped /\ conv \in ChatState /\ conv.started
      /\ reasons => conv.reasonIndex = b
      /\ Sums(a, t, r, c) /\ c \in Seq(Pieces) /\ ChatAt(a, st, block, c)
  BY <1>1, <1>2, ChatNowAt
<1>4. block \in {"none", "thinking"}
  <2>1. habits' = habits \cup ChatOrder("thinking")
    BY DEF ChatReasoningChunk
  <2>2. ChatOrder("thinking") = {}
    BY <2>1
  <2> QED
    BY <1>2, <2>2 DEF ChatOrder
<1>5. c = <<>> /\ SlotsAt(st, b, 0) /\ NoCalls(a) /\ ChatPart(a, b, block, reasons)
  <2>1. block # "tool_use" /\ st.blockIndex = b /\ st.hasReasoning = reasons
    BY <1>2, <1>4
  <2> QED
    BY <1>3, <2>1, ChatPartOf
<1>6. PICK text \in Pieces : text = Piece /\ text # <<>>
  BY <1>3, ProviderFields
<1>7. PICK chunk : /\ chunk = Chunk(FALSE, text, <<>>, 0, "none", <<>>, FALSE)
                   /\ ChatReceives(chunk, "thinking", 1, "open")
  BY <1>6 DEF ChatReasoningChunk
<1>8. /\ provider'.phase = "open" /\ provider'.block = "thinking" /\ protocol' = "chat"
      /\ conv' = ChatConvert(chunk).st /\ core' = ChatConvert(chunk).out
  BY <1>1, <1>3, <1>7, ReceivesTo
<1>9. given'.text = t /\ given'.reasoning = r \o text /\ given'.calls = <<>>
  BY <1>2, <1>3, <1>5, <1>6, GivenReasoning DEF ChatReasoningChunk
<1>10. CASE reasons
  <2>1. conv' = st /\ core' = <<Delta("text_delta", b, text)>>
    <3>1. ChatConvert(chunk).st = conv /\ ChatConvert(chunk).out = <<Delta("text_delta", conv.reasonIndex, text)>>
      BY <1>2, <1>3, <1>6, <1>7, <1>10, ConvertsReasoning
    <3> QED
      BY <1>2, <1>3, <1>8, <1>10, <3>1
  <2>2. ChatPart(a, b, "thinking", TRUE)
    BY <1>4, <1>5, <1>10 DEF ChatPart
  <2>3. PICK m \in Accounts :
          /\ Adds(a, b, text, m) /\ ChatPart(m, b, "thinking", TRUE) /\ NoCalls(m)
          /\ Sums(m, t, r \o text, c)
    BY <1>3, <1>5, <2>2, ChatReasoningAdds
  <2>4. Runs(a, core', m)
    BY <2>1, <2>3, FollowsText, RunsOne
  <2>5. Rest(m)'
    <3>1. /\ conv'.toolCallSlot = st.toolCallSlot /\ conv'.callStarted = st.callStarted
          /\ conv'.toolCallIdx = st.toolCallIdx /\ conv'.blockIndex = b /\ conv'.hasReasoning = TRUE
      BY <1>2, <1>10, <2>1
    <3> QED
      BY <1>2, <1>5, <1>8, <1>9, <2>3, <3>1, ChatPartRest
  <2> QED
    BY <2>4, <2>5 DEF Goes
<1>11. CASE ~ reasons
  <2>0. PICK i \in Nat : i = b + 1
    OBVIOUS
  <2>1. /\ conv' = [conv EXCEPT !.hasReasoning = TRUE, !.reasonIndex = i, !.blockIndex = i]
        /\ core' = <<BlockDone(i), BlockStarted(i, "reasoning"), Delta("text_delta", i, text)>>
    BY <1>2, <1>3, <1>6, <1>7, <1>8, <1>11, <2>0, ConvertsReasoning
  <2>2. /\ conv'.toolCallSlot = st.toolCallSlot /\ conv'.callStarted = st.callStarted
        /\ conv'.toolCallIdx = st.toolCallIdx /\ conv'.blockIndex = i /\ conv'.hasReasoning = TRUE
    BY <1>2, <1>3, <2>1 DEF ChatState
  <2>3. ChatPart(a, b, "none", FALSE)
    BY <1>4, <1>5, <1>11 DEF ChatPart
  <2>4. PICK m \in Accounts, n \in Accounts :
          /\ EndsBlock(a, i, a) /\ Starts(a, i, "reasoning", m) /\ Adds(m, i, text, n)
          /\ ChatPart(n, i, "thinking", TRUE) /\ NoCalls(n)
          /\ Sums(n, t, r \o text, c)
    BY <1>3, <1>5, <2>0, <2>3, ChatReasoningBegins
  <2>5. Runs(a, core', n)
    BY <2>1, <2>4, FollowsDone, FollowsStart, FollowsText, RunsThree
  <2>6. Rest(n)'
    BY <1>2, <1>5, <1>8, <1>9, <2>2, <2>4, ChatPartRest
  <2> QED
    BY <2>5, <2>6 DEF Goes
<1> QED
  BY <1>10, <1>11

LEMMA ChatTextGoes ==
  ASSUME ChatTextChunk, ProviderTyped, NEW a \in Accounts, Rest(a), NEW fits, Can(fits), habits' = {}
  PROVE  Goes(a)
<1>1. protocol = "chat" /\ provider.phase = "open"
  BY DEF ChatTextChunk, Ready
<1>0. PICK b \in Nat, reasons \in BOOLEAN : b = conv.blockIndex /\ reasons = conv.hasReasoning
  BY <1>1, ChatNowAt
<1>2. PICK st, block, t, r, c :
        /\ st = conv /\ b = conv.blockIndex /\ reasons = conv.hasReasoning /\ block = provider.block
        /\ t = given.text /\ r = given.reasoning /\ c = given.calls
  BY <1>0
<1>3. /\ provider \in Provider /\ GivenTyped /\ conv \in ChatState /\ conv.started
      /\ reasons => conv.reasonIndex = b
      /\ Sums(a, t, r, c) /\ c \in Seq(Pieces) /\ ChatAt(a, st, block, c)
  BY <1>1, <1>2, ChatNowAt
<1>4. block # "tool_use"
  <2>1. habits' = habits \cup ChatOrder("text")
    BY DEF ChatTextChunk
  <2>2. ChatOrder("text") = {}
    BY <2>1
  <2> QED
    BY <1>2, <2>2 DEF ChatOrder
<1>5. c = <<>> /\ SlotsAt(st, b, 0) /\ NoCalls(a) /\ ChatPart(a, b, block, reasons)
  <2>1. st.blockIndex = b /\ st.hasReasoning = reasons
    BY <1>2
  <2> QED
    BY <1>3, <1>4, <2>1, ChatPartOf
<1>6. PICK text \in Pieces : text = Piece /\ text # <<>>
  BY <1>3, ProviderFields
<1>7. PICK chunk : /\ chunk = Chunk(FALSE, <<>>, text, 0, "none", <<>>, FALSE)
                   /\ ChatReceives(chunk, "text", 1, "open")
  BY <1>6 DEF ChatTextChunk
<1>8. /\ provider'.phase = "open" /\ provider'.block = "text" /\ protocol' = "chat"
      /\ conv' = ChatConvert(chunk).st /\ core' = ChatConvert(chunk).out
  BY <1>1, <1>3, <1>7, ReceivesTo
<1>9. given'.text = t \o text /\ given'.reasoning = r /\ given'.calls = <<>>
  BY <1>2, <1>3, <1>5, <1>6, GivenText DEF ChatTextChunk
<1>10. CASE ~ reasons
  <2>1. conv' = st /\ core' = <<Delta("text_delta", b, text)>>
    BY <1>2, <1>3, <1>6, <1>7, <1>8, <1>10, ConvertsText
  <2>2. block \in {"none", "text"} /\ ChatPart(a, b, block, FALSE)
    BY <1>4, <1>5, <1>10 DEF ChatPart
  <2>3. PICK m \in Accounts :
          /\ Adds(a, b, text, m) /\ ChatPart(m, b, "text", FALSE) /\ NoCalls(m)
          /\ Sums(m, t \o text, r, c)
    BY <1>3, <1>5, <2>2, ChatTextAdds
  <2>4. Runs(a, core', m)
    BY <2>1, <2>3, FollowsText, RunsOne
  <2>5. Rest(m)'
    <3>1. /\ conv'.toolCallSlot = st.toolCallSlot /\ conv'.callStarted = st.callStarted
          /\ conv'.toolCallIdx = st.toolCallIdx /\ conv'.blockIndex = b /\ conv'.hasReasoning = FALSE
      BY <1>2, <1>10, <2>1
    <3> QED
      BY <1>2, <1>5, <1>8, <1>9, <2>3, <3>1, ChatPartRest
  <2> QED
    BY <2>4, <2>5 DEF Goes
<1>11. CASE reasons
  <2>0. PICK i \in Nat : i = b + 1
    OBVIOUS
  <2>1. /\ conv' = [conv EXCEPT !.hasReasoning = FALSE, !.blockIndex = i]
        /\ core' = <<BlockDone(b), BlockStarted(i, "text"), Delta("text_delta", i, text)>>
    <3>1. LET n == conv.reasonIndex + 1 IN
          /\ ChatConvert(chunk).st = [conv EXCEPT !.hasReasoning = FALSE, !.blockIndex = n]
          /\ ChatConvert(chunk).out = <<BlockDone(conv.reasonIndex), BlockStarted(n, "text"),
                                        Delta("text_delta", n, text)>>
      BY <1>2, <1>3, <1>6, <1>7, <1>11, ConvertsText
    <3>2. conv.reasonIndex = b /\ conv.reasonIndex + 1 = i
      BY <1>3, <1>11, <2>0
    <3> QED
      BY <1>8, <3>1, <3>2
  <2>2. /\ conv'.toolCallSlot = st.toolCallSlot /\ conv'.callStarted = st.callStarted
        /\ conv'.toolCallIdx = st.toolCallIdx /\ conv'.blockIndex = i /\ conv'.hasReasoning = FALSE
    BY <1>2, <1>3, <2>1 DEF ChatState
  <2>3. ChatPart(a, b, "thinking", TRUE)
    BY <1>4, <1>5, <1>11 DEF ChatPart
  <2>4. PICK k \in Accounts, m \in Accounts, n \in Accounts :
          /\ EndsBlock(a, b, k) /\ Starts(k, i, "text", m) /\ Adds(m, i, text, n)
          /\ ChatPart(n, i, "text", FALSE) /\ NoCalls(n)
          /\ Sums(n, t \o text, r, c)
    BY <1>3, <1>5, <2>0, <2>3, ChatTextBegins
  <2>5. Runs(a, core', n)
    BY <2>1, <2>4, FollowsDone, FollowsStart, FollowsText, RunsThree
  <2>6. Rest(n)'
    BY <1>2, <1>5, <1>8, <1>9, <2>2, <2>4, ChatPartRest
  <2> QED
    BY <2>5, <2>6 DEF Goes
<1> QED
  BY <1>10, <1>11

-----------------------------------------------------------------------------
(***************************************************************************)
(* The calls of Chat Completions: the last items, one for each.            *)
(***************************************************************************)

\* The calls are all of the calls among the items.
LEMMA CallsSum ==
  ASSUME NEW a \in Accounts, NEW b \in Nat, NEW calls \in Seq(Pieces), NEW m \in Nat, CallsAt(a, b, calls, m)
  PROVE  CallList(a.items) = calls
<1>1. PICK l \in Nat : l = Len(calls)
  BY ElementsOf
<1>2. /\ Len(a.items) = m + l
      /\ \A k \in 1..m : a.items[k].type # "function_call"
      /\ \A k \in 1..l : a.items[m + k] = [type |-> "function_call", text |-> calls[k]]
  BY <1>1 DEF CallsAt
<1>3. PICK s : s = CallParts(a.items)
  OBVIOUS
<1>4. /\ Len(s) = m + l /\ m + l \in Nat
      /\ \A k \in 1..m : s[k] = <<>>
      /\ \A k \in 1..l : s[m + k] = <<calls[k]>>
  <2>1. /\ \A k \in 1..m : k \in 1..(m + l)
        /\ \A k \in 1..l : m + k \in 1..(m + l)
        /\ m + l \in Nat
    OBVIOUS
  <2>2. Len(s) = m + l
    BY <1>2, <1>3, AccountIs, PartsTyped DEF Items
  <2>3. \A k \in 1..m : s[k] = <<>>
    BY <1>2, <1>3, <2>1 DEF CallParts
  <2>4. ASSUME NEW k \in 1..l PROVE s[m + k] = <<calls[k]>>
    <3>1. PICK j \in 1..Len(a.items) : j = m + k
      BY <1>2, <2>1
    <3>4. a.items[m + k] = [type |-> "function_call", text |-> calls[k]]
      BY <1>2
    <3>5. a.items[j] = [type |-> "function_call", text |-> calls[k]]
      BY <3>1, <3>4
    <3>2. a.items[j].type = "function_call" /\ a.items[j].text = calls[k]
      BY <3>5
    <3>3. s[j] = <<calls[k]>>
      BY <1>3, <3>2 DEF CallParts
    <3> QED
      BY <3>1, <3>3
  <2> QED
    BY <2>1, <2>2, <2>3, <2>4
<1>5. PICK f : f[0] = <<>> /\ Flat(s) = f[m + l] /\ \A k \in 1..(m + l) : f[k] = f[k - 1] \o s[k]
  BY <1>4, FlatSteps
<1>6. <<>> \o <<>> = <<>>
  OBVIOUS
<1> DEFINE T == {k \in 0..m : f[k] = <<>>}
<1>7. ASSUME NEW k \in 1..m, k - 1 \in T PROVE k \in T
  <2>1. k \in 1..(m + l) /\ k \in 0..m
    OBVIOUS
  <2>2. f[k - 1] = <<>>
    BY <1>7
  <2> QED
    BY <1>4, <1>5, <1>6, <2>1, <2>2
<1>8. 0 \in T
  BY <1>5
<1> HIDE DEF T
<1>9. \A k \in 0..m : k \in T
  BY <1>7, <1>8, AllUpTo
<1>10. f[m] = <<>>
  BY <1>9 DEF T
<1> DEFINE U == {k \in 0..l : f[m + k] = SubSeq(calls, 1, k)}
<1>11. 0 \in U
  <2>1. SubSeq(calls, 1, 0) = <<>> /\ m + 0 = m /\ 0 \in 0..l
    BY SubSeqEmpty
  <2> QED
    BY <1>10, <2>1
<1>12. ASSUME NEW k \in 1..l, k - 1 \in U PROVE k \in U
  <2>1. /\ m + k \in 1..(m + l) /\ (m + k) - 1 = m + (k - 1) /\ k \in 0..l
        /\ 1 \in 1..Len(calls) /\ k \in 1..Len(calls)
    BY <1>1
  <2>2. SubSeq(calls, 1, k) = SubSeq(calls, 1, k - 1) \o <<calls[k]>>
    BY <2>1, SubSeqRecursiveSecond
  <2>3. f[m + (k - 1)] = SubSeq(calls, 1, k - 1)
    BY <1>12
  <2>4. f[m + k] = f[(m + k) - 1] \o s[m + k]
    BY <1>5, <2>1
  <2> QED
    BY <1>4, <2>1, <2>2, <2>3, <2>4
<1> HIDE DEF U
<1>13. \A k \in 0..l : k \in U
  BY <1>11, <1>12, AllUpTo
<1>14. f[m + l] = SubSeq(calls, 1, l)
  <2>1. l \in 0..l
    OBVIOUS
  <2> QED
    BY <1>13, <2>1 DEF U
<1>15. SubSeq(calls, 1, l) = calls
  BY <1>1, SubSeqFull
<1> QED
  BY <1>3, <1>5, <1>14, <1>15 DEF CallList

\* More of a call leaves the texts alone.
LEMMA TextsApart ==
  ASSUME NEW a \in Accounts, NEW b \in Accounts, NEW p, Len(b.items) = Len(a.items),
         \A n \in 1..Len(a.items) : n # p => b.items[n] = a.items[n],
         a.items[p].type = "function_call", b.items[p].type = "function_call",
         NEW t, NEW r, NEW c, Sums(a, t, r, c), NEW d, CallList(b.items) = d
  PROVE  Sums(b, t, r, d)
<1>1. ASSUME NEW type \in {"message", "reasoning"} PROVE Worth(b.items, type) = Worth(a.items, type)
  <2>1. \A n \in 1..Len(a.items) :
          (IF b.items[n].type = type THEN b.items[n].text ELSE <<>>)
            = (IF a.items[n].type = type THEN a.items[n].text ELSE <<>>)
    OBVIOUS
  <2>2. TextParts(b.items, type) = TextParts(a.items, type)
    BY <2>1 DEF TextParts
  <2> QED
    BY <2>2 DEF Worth
<1> QED
  BY <1>1 DEF Sums

\* A call begins with a piece of its arguments.
CallMade(a, i, text, m, g) ==
    /\ Starts(a, i, "tool_use", m) /\ AddsArgs(m, i, text, g)
    /\ g.open = a.open \cup {i} /\ g.begun = a.begun
    /\ \A j : Known(g, j) <=> Known(a, j) \/ j = i
    /\ Len(g.items) = Len(a.items) + 1
    /\ \A n \in 1..Len(a.items) : g.items[n] = a.items[n]
    /\ g.items[Len(a.items) + 1] = [type |-> "function_call", text |-> text]
    /\ g.at[i] = Len(a.items) + 1
    /\ \A j \in DOMAIN a.at : g.at[j] = a.at[j]

LEMMA CallBegins ==
  ASSUME NEW a \in Accounts, NEW i \in Nat, ~ Known(a, i), NEW text \in Pieces,
         NEW t, NEW r, NEW c, Sums(a, t, r, c)
  PROVE  \E m \in Accounts, g \in Accounts :
            CallMade(a, i, text, m, g) /\ Sums(g, t, r, Append(c, text))
<1>1. i \notin DOMAIN a.at /\ i \notin a.begun /\ <<>> \in Pieces /\ "function_call" \in ItemTypes
  BY DEF Known, Pieces, ItemTypes
<1>2. PICK e \in Pieces, type \in ItemTypes : e = <<>> /\ type = "function_call"
  BY <1>1
<1>3. PICK m : m = Opened(a, i, type, e)
  OBVIOUS
<1>4. /\ m \in Accounts /\ Len(a.items) \in Nat /\ Len(m.items) = Len(a.items) + 1
      /\ \A n \in 1..Len(a.items) : m.items[n] = a.items[n]
      /\ m.items[Len(a.items) + 1] = [type |-> type, text |-> e]
      /\ DOMAIN m.at = DOMAIN a.at \cup {i} /\ m.at[i] = Len(a.items) + 1
      /\ \A j \in DOMAIN a.at : j # i => m.at[j] = a.at[j]
      /\ m.begun = a.begun \ {i} /\ m.open = a.open \cup {i}
  BY <1>1, <1>3, OpenedIs
<1>5. PICK l \in Nat : l = Len(a.items)
  BY <1>4
<1>6. /\ \A j \in DOMAIN a.at : j # i
      /\ \A n \in 1..l : n # l + 1 /\ n \in 1..(l + 1)
  BY <1>1
<1>7. ItemAt(m, i).text = e /\ ItemAt(m, i).type = type /\ i \in DOMAIN m.at /\ i \in m.open
  BY <1>4 DEF ItemAt
<1>8. e \o text = text
  <2>1. text \in Seq(Nat)
    BY DEF Pieces
  <2> QED
    BY <1>2, <2>1, ConcatEmptySeq
<1>9. PICK g : g = Grew(m, i, text)
  OBVIOUS
<1>10. /\ g \in Accounts /\ Len(g.items) = Len(m.items)
       /\ \A n \in 1..Len(m.items) : n # m.at[i] => g.items[n] = m.items[n]
       /\ g.items[m.at[i]] = [type |-> ItemAt(m, i).type, text |-> text]
       /\ g.at = m.at /\ g.begun = m.begun /\ g.open = m.open
  BY <1>4, <1>7, <1>9, GrewIs
<1>11. Starts(a, i, "tool_use", m)
  BY <1>2, <1>3 DEF Starts
<1>12. AddsArgs(m, i, text, g)
  BY <1>2, <1>7, <1>8, <1>9 DEF AddsArgs, IsCall
<1>13. \A j : Known(g, j) <=> Known(a, j) \/ j = i
  BY <1>1, <1>4, <1>10 DEF Known
<1>14. /\ Len(g.items) = l + 1 /\ \A n \in 1..l : g.items[n] = a.items[n]
       /\ g.items[l + 1] = [type |-> "function_call", text |-> text] /\ g.at[i] = l + 1
       /\ \A j \in DOMAIN a.at : g.at[j] = a.at[j]
  BY <1>2, <1>4, <1>5, <1>6, <1>7, <1>10
<1>15. g.open = a.open \cup {i} /\ g.begun = a.begun
  BY <1>1, <1>4, <1>10
<1>16. CallMade(a, i, text, m, g)
  BY <1>5, <1>11, <1>12, <1>13, <1>14, <1>15 DEF CallMade
<1>17. Sums(g, t, r, Append(c, text))
  <2>1. Current(m, i, type)
    BY <1>1, <1>3, NewIsCurrent
  <2>2. c \in Seq(Pieces)
    BY SumsTyped
  <2>3. Sums(m, t, r, Append(c, e))
    BY <1>1, <1>2, <1>3, SumsOfNew
  <2>4. g = Grew(m, i, ItemAt(m, i).text \o text)
    BY <1>7, <1>8, <1>9
  <2>5. Current(m, i, "function_call") /\ Sums(m, t, r, Append(c, <<>>))
    BY <1>2, <2>1, <2>3
  <2> QED
    BY <1>4, <2>2, <2>4, <2>5, CallGrows
<1> QED
  BY <1>4, <1>10, <1>16, <1>17

\* A new call: the next block, and the last item.
NextCall(a, i, text, b, o, l, reasons, t, r, d) ==
    \E m \in Accounts, g \in Accounts :
        /\ Starts(a, i, "tool_use", m) /\ AddsArgs(m, i, text, g) /\ Sums(g, t, r, d)
        /\ CallsAt(g, b, d, l) /\ ChatBlockAt(g, b, o, "tool_use", reasons)

LEMMA NewCall ==
  ASSUME NEW a \in Accounts, NEW b \in Nat, NEW n \in Nat, NEW c \in Seq(Pieces), n = Len(c),
         NEW l \in Nat, CallsAt(a, b, c, l), NEW block, NEW reasons, ChatBlockAt(a, b, n, block, reasons),
         NEW text \in Pieces, NEW t, NEW r, Sums(a, t, r, c), NEW i \in Nat, i = b + 1 + n,
         NEW d, d = Append(c, text), NEW o, o = n + 1
  PROVE  NextCall(a, i, text, b, o, l, reasons, t, r, d)
<1>1. ~ Known(a, i)
  <2>1. Known(a, i) => i <= b + n
    BY DEF ChatBlockAt
  <2>2. ~ i <= b + n
    OBVIOUS
  <2> QED
    BY <2>1, <2>2
<1>2. PICK m \in Accounts, g \in Accounts : CallMade(a, i, text, m, g) /\ Sums(g, t, r, d)
  BY <1>1, CallBegins
<1>3. /\ Starts(a, i, "tool_use", m) /\ AddsArgs(m, i, text, g)
      /\ g.open = a.open \cup {i} /\ g.begun = a.begun
      /\ \A j : Known(g, j) <=> Known(a, j) \/ j = i
      /\ Len(g.items) = Len(a.items) + 1
      /\ \A k \in 1..Len(a.items) : g.items[k] = a.items[k]
      /\ g.items[Len(a.items) + 1] = [type |-> "function_call", text |-> text]
      /\ g.at[i] = Len(a.items) + 1
      /\ \A j \in DOMAIN a.at : g.at[j] = a.at[j]
  BY <1>2 DEF CallMade
<1>4. /\ d \in Seq(Pieces) /\ Len(d) = o /\ d[o] = text /\ \A k \in 1..n : d[k] = c[k]
  BY AppendProperties
<1>5. /\ a.open = ({b} \ a.begun) \cup ((b + 1)..(b + n)) /\ Len(a.items) = l + n
      /\ \A k \in 1..l : a.items[k].type # "function_call"
      /\ \A k \in 1..n : /\ a.items[l + k] = [type |-> "function_call", text |-> c[k]]
                         /\ a.at[b + k] = l + k
  BY DEF ChatBlockAt, CallsAt
<1>6. /\ l \in Nat /\ l + n \in Nat /\ l + o = (l + n) + 1 /\ b + o = i
      /\ \A k \in 1..l : k \in 1..(l + n)
      /\ \A k \in 1..n : l + k \in 1..(l + n) /\ b + k \in (b + 1)..(b + n)
      /\ \A k \in 1..o : k = o \/ k \in 1..n
  OBVIOUS
<1>7. CallsAt(g, b, d, l)
  <2>1. Len(g.items) = l + o
    BY <1>3, <1>5, <1>6
  <2>2. \A k \in 1..l : g.items[k].type # "function_call"
    BY <1>3, <1>5, <1>6
  <2>3. ASSUME NEW k \in 1..o
        PROVE  /\ g.items[l + k] = [type |-> "function_call", text |-> d[k]]
               /\ g.at[b + k] = l + k
    <3>1. CASE k = o
      BY <1>3, <1>4, <1>5, <1>6, <3>1
    <3>2. CASE k \in 1..n
      <4>1. PICK x, y : x = l + k /\ y = b + k
        OBVIOUS
      <4>2. /\ a.items[x] = [type |-> "function_call", text |-> c[k]] /\ a.at[y] = x
            /\ x \in 1..Len(a.items) /\ y \in a.open
        BY <1>5, <1>6, <3>2, <4>1
      <4>3. y \in DOMAIN a.at
        BY <4>2, AccountIs DEF Placing
      <4>4. g.items[x] = a.items[x] /\ g.at[y] = a.at[y]
        BY <1>3, <4>2, <4>3
      <4>5. g.items[x] = [type |-> "function_call", text |-> d[k]] /\ g.at[y] = x
        BY <1>4, <3>2, <4>2, <4>4
      <4> QED
        BY <4>1, <4>5
    <3> QED
      BY <1>6, <3>1, <3>2
  <2> QED
    BY <1>4, <2>1, <2>2, <2>3 DEF CallsAt
<1>8. ChatBlockAt(g, b, o, "tool_use", reasons)
  <2>1. ASSUME NEW j, Known(g, j) PROVE j <= b + o
    <3>1. CASE j = i
      BY <1>6, <3>1
    <3>2. CASE Known(a, j)
      <4>1. j \in Nat
        BY <3>2, AccountIs DEF Known
      <4>2. j <= b + n
        BY <3>2 DEF ChatBlockAt
      <4> QED
        BY <4>1, <4>2
    <3> QED
      BY <1>3, <2>1, <3>1, <3>2
  <2>2. \/ b \in g.begun
        \/ b \in g.open /\ ~ IsCall(g, b)
    <3>1. CASE b \in a.begun
      BY <1>3, <3>1
    <3>2. CASE b \in a.open /\ ~ IsCall(a, b)
      <4>1. b \in DOMAIN a.at /\ a.at[b] \in 1..Len(a.items)
        BY <3>2, AccountIs DEF Placing
      <4>2. ItemAt(g, b) = ItemAt(a, b)
        BY <1>3, <4>1 DEF ItemAt
      <4> QED
        BY <1>3, <3>2, <4>2 DEF IsCall
    <3> QED
      BY <3>1, <3>2 DEF ChatBlockAt
  <2>3. g.open = ({b} \ g.begun) \cup ((b + 1)..(b + o))
    <3>1. (b + 1)..(b + o) = ((b + 1)..(b + n)) \cup {i}
      OBVIOUS
    <3> QED
      BY <1>3, <1>5, <3>1
  <2> QED
    BY <2>1, <2>2, <2>3 DEF ChatBlockAt
<1> QED
  BY <1>2, <1>3, <1>7, <1>8 DEF NextCall

\* More of a call that has begun.
LEMMA MoreOfCall ==
  ASSUME NEW a \in Accounts, NEW b \in Nat, NEW n \in Nat, NEW c \in Seq(Pieces), n = Len(c),
         NEW l \in Nat, CallsAt(a, b, c, l), NEW block, NEW reasons, ChatBlockAt(a, b, n, block, reasons),
         NEW text \in Pieces, NEW t, NEW r, Sums(a, t, r, c), NEW p \in 1..n, NEW i \in Nat, i = b + p,
         NEW d \in Seq(Pieces), Len(d) = n, d[p] = c[p] \o text, \A k \in 1..n : k # p => d[k] = c[k]
  PROVE  \E g \in Accounts :
            /\ AddsArgs(a, i, text, g) /\ Sums(g, t, r, d)
            /\ CallsAt(g, b, d, l) /\ ChatBlockAt(g, b, n, "tool_use", reasons)
<1>1. /\ a.open = ({b} \ a.begun) \cup ((b + 1)..(b + n)) /\ Len(a.items) = l + n
      /\ \A k \in 1..l : a.items[k].type # "function_call"
      /\ \A k \in 1..n : /\ a.items[l + k] = [type |-> "function_call", text |-> c[k]]
                         /\ a.at[b + k] = l + k
  BY DEF ChatBlockAt, CallsAt
<1>2. PICK q \in Nat : q = l + p
  OBVIOUS
<1>3. i \in a.open /\ a.at[i] = q /\ a.items[q] = [type |-> "function_call", text |-> c[p]]
  <2>0. i \in (b + 1)..(b + n)
    OBVIOUS
  <2>1. i \in a.open /\ a.at[b + p] = l + p
    BY <1>1, <2>0
  <2>2. a.items[l + p] = [type |-> "function_call", text |-> c[p]]
    BY <1>1
  <2>3. a.items[q] = [type |-> "function_call", text |-> c[p]]
    BY <1>2, <2>2
  <2> QED
    BY <1>1, <1>2, <2>1, <2>3
<1>4. i \in DOMAIN a.at /\ ItemAt(a, i).text = c[p] /\ ItemAt(a, i).type = "function_call"
  <2>1. i \in DOMAIN a.at
    BY <1>3, AccountIs DEF Placing
  <2> QED
    BY <1>3, <2>1 DEF ItemAt
<1>5. PICK e \in Pieces : e = d[p]
  BY ElementsOf
<1>6. PICK g : g = Grew(a, i, e)
  OBVIOUS
<1>7. /\ g \in Accounts /\ Len(g.items) = Len(a.items)
      /\ \A k \in 1..Len(a.items) : k # q => g.items[k] = a.items[k]
      /\ g.items[q] = [type |-> "function_call", text |-> e]
      /\ g.at = a.at /\ g.begun = a.begun /\ g.open = a.open
  <2>1. i \in DOMAIN a.at /\ a.at[i] = q /\ ItemAt(a, i).type = "function_call"
    BY <1>3, <1>4
  <2>2. /\ g \in Accounts /\ Len(g.items) = Len(a.items)
        /\ \A k \in 1..Len(a.items) : k # a.at[i] => g.items[k] = a.items[k]
        /\ g.items[a.at[i]] = [type |-> ItemAt(a, i).type, text |-> e]
        /\ g.at = a.at /\ g.begun = a.begun /\ g.open = a.open
    BY ONLY <1>6, <2>1, a \in Accounts, e \in Pieces, GrewIs
  <2> QED
    BY ONLY <2>1, <2>2
<1>8. AddsArgs(a, i, text, g)
  BY <1>3, <1>4, <1>5, <1>6 DEF AddsArgs, IsCall
<1>9. CallsAt(g, b, d, l)
  <2>1. \A k \in 1..l : k \in 1..(l + n) /\ k # q
    BY <1>2
  <2>2. ASSUME NEW k \in 1..n
        PROVE  /\ g.items[l + k] = [type |-> "function_call", text |-> d[k]]
               /\ g.at[b + k] = l + k
    <3>1. PICK x : x = l + k
      OBVIOUS
    <3>2. x \in 1..(l + n) /\ (x = q <=> k = p)
      BY <1>2, <3>1
    <3>3. a.items[l + k] = [type |-> "function_call", text |-> c[k]]
      BY <1>1
    <3>4. a.items[x] = [type |-> "function_call", text |-> c[k]]
      BY <3>1, <3>3
    <3>5. g.items[x] = [type |-> "function_call", text |-> d[k]]
      BY <1>1, <1>5, <1>7, <3>2, <3>4
    <3>6. a.at[b + k] = l + k
      BY <1>1
    <3> QED
      BY <1>7, <3>1, <3>5, <3>6
  <2>3. \A k \in 1..l : g.items[k].type # "function_call"
    BY <1>1, <1>7, <2>1
  <2> QED
    BY <1>1, <1>7, <2>2, <2>3 DEF CallsAt
<1>10. ChatBlockAt(g, b, n, "tool_use", reasons)
  <2>1. \A j : Known(g, j) <=> Known(a, j)
    BY <1>7 DEF Known
  <2>2. \/ b \in g.begun
        \/ b \in g.open /\ ~ IsCall(g, b)
    <3>1. CASE b \in a.begun
      BY <1>7, <3>1
    <3>2. CASE b \in a.open /\ ~ IsCall(a, b)
      <4>1. b \in DOMAIN a.at /\ a.at[b] \in 1..Len(a.items)
        BY <3>2, AccountIs DEF Placing
      <4>2. a.at[b] # q
        BY <1>3, <3>2, <4>1 DEF IsCall, ItemAt
      <4>3. ItemAt(g, b) = ItemAt(a, b)
        BY <1>7, <4>1, <4>2 DEF ItemAt
      <4> QED
        BY <1>7, <3>2, <4>3 DEF IsCall
    <3> QED
      BY <3>1, <3>2 DEF ChatBlockAt
  <2> QED
    BY <1>1, <1>7, <2>1, <2>2 DEF ChatBlockAt
<1>11. Sums(g, t, r, d)
  <2>1. CallList(g.items) = d
    BY <1>7, <1>9, CallsSum
  <2>2. \A k \in 1..Len(a.items) : k # q => g.items[k] = a.items[k]
    BY <1>7
  <2>3. a.items[q].type = "function_call" /\ g.items[q].type = "function_call"
    BY <1>3, <1>7
  <2> QED
    BY ONLY <1>7, <2>1, <2>2, <2>3, TextsApart, Sums(a, t, r, c), a \in Accounts
<1> QED
  BY <1>7, <1>8, <1>9, <1>10, <1>11

\* The slots of the calls.
LEMMA NewSlot ==
  ASSUME conv \in ChatState, NEW b \in Nat, conv.blockIndex = b, NEW n \in Nat, SlotsAt(conv, b, n),
         NEW i \in Nat, i = b + 1 + n, NEW o, o = n + 1
  PROVE  /\ n \notin DOMAIN conv.toolCallSlot /\ SlotOf(n) = i /\ i \notin conv.callStarted
         /\ \A tt : /\ tt.toolCallSlot = Slotted(n).toolCallSlot /\ tt.toolCallIdx = Slotted(n).toolCallIdx
                    /\ tt.callStarted = conv.callStarted \cup {i}
                    => SlotsAt(tt, b, o)
<1>1. PICK slots, started, idx : slots = conv.toolCallSlot /\ started = conv.callStarted /\ idx = conv.toolCallIdx
  OBVIOUS
<1>2. /\ DOMAIN slots = 0..(n - 1) /\ \A p \in 0..(n - 1) : slots[p] = b + 1 + p
      /\ started = (b + 1)..(b + n) /\ idx = IF n = 0 THEN 0 ELSE b + 1 + n
  BY <1>1 DEF SlotsAt
<1>3. /\ n \notin 0..(n - 1) /\ i \notin (b + 1)..(b + n)
      /\ n = 0 => 0..(n - 1) = {}
      /\ n # 0 => 0 \in 0..(n - 1)
      /\ 0..(n - 1) \cup {n} = 0..(o - 1)
      /\ (b + 1)..(b + n) \cup {i} = (b + 1)..(b + o)
      /\ o # 0 /\ i + 1 = b + 1 + o
  OBVIOUS
<1>4. slots \in Partial(Nat)
  BY <1>1 DEF ChatState
<1>5. NextSlot = i
  <2>1. CASE n = 0
    <3>1. slots = <<>>
      BY <1>2, <1>3, <1>4, <2>1 DEF Partial
    <3>2. i = b + 1
      BY <2>1
    <3> QED
      BY <1>1, <3>1, <3>2 DEF NextSlot
  <2>2. CASE n # 0
    <3>1. slots # <<>>
      BY <1>2, <1>3, <2>2
    <3>2. idx = i
      BY <1>2, <2>2
    <3> QED
      BY <1>1, <3>1, <3>2 DEF NextSlot
  <2> QED
    BY <2>1, <2>2
<1>6. n \notin DOMAIN slots
  BY <1>2, <1>3
<1>7. PICK st : st = Slotted(n)
  OBVIOUS
<1>8. SlotOf(n) = i
  BY <1>1, <1>5, <1>6 DEF SlotOf
<1>9. /\ st.toolCallSlot[n] = i /\ DOMAIN st.toolCallSlot = DOMAIN slots \cup {n}
      /\ \A p \in DOMAIN slots : st.toolCallSlot[p] = slots[p]
      /\ st.toolCallIdx = i + 1
  BY <1>1, <1>5, <1>6, <1>7, <1>8, SlottedTyped
<1>10. /\ DOMAIN st.toolCallSlot = 0..(o - 1)
       /\ \A p \in 0..(o - 1) : st.toolCallSlot[p] = b + 1 + p
  <2>1. DOMAIN st.toolCallSlot = 0..(o - 1)
    BY <1>2, <1>3, <1>9
  <2>2. ASSUME NEW p \in 0..(o - 1) PROVE st.toolCallSlot[p] = b + 1 + p
    <3>1. CASE p = n
      BY <1>9, <3>1
    <3>2. CASE p \in 0..(n - 1)
      BY <1>2, <1>9, <3>2
    <3> QED
      BY <1>3, <3>1, <3>2
  <2> QED
    BY <2>1, <2>2
<1>11. st.toolCallIdx = IF o = 0 THEN 0 ELSE b + 1 + o
  BY <1>3, <1>9
<1>12. started \cup {i} = (b + 1)..(b + o) /\ i \notin started
  BY <1>2, <1>3
<1>13. ASSUME NEW tt, tt.toolCallSlot = st.toolCallSlot, tt.toolCallIdx = st.toolCallIdx,
              tt.callStarted = started \cup {i}
       PROVE  SlotsAt(tt, b, o)
  BY <1>10, <1>11, <1>12, <1>13 DEF SlotsAt
<1> QED
  BY <1>1, <1>6, <1>7, <1>8, <1>12, <1>13

LEMMA ChatCallGoes ==
  ASSUME ChatCallChunk, ProviderTyped, NEW a \in Accounts, Rest(a), NEW fits, Can(fits), habits' = {}
  PROVE  Goes(a)
<1>1. protocol = "chat" /\ provider.phase = "open"
  BY DEF ChatCallChunk, Ready
<1>0. PICK b \in Nat, reasons \in BOOLEAN : b = conv.blockIndex /\ reasons = conv.hasReasoning
  BY <1>1, ChatNowAt
<1>2. PICK block, t, r, c :
        /\ b = conv.blockIndex /\ reasons = conv.hasReasoning /\ block = provider.block
        /\ t = given.text /\ r = given.reasoning /\ c = given.calls
  BY <1>0
<1>3. /\ provider \in Provider /\ GivenTyped /\ conv \in ChatState /\ conv.started
      /\ Sums(a, t, r, c) /\ c \in Seq(Pieces) /\ ChatAt(a, conv, block, c)
  BY <1>1, <1>2, ChatNowAt
<1>4. PICK n \in Nat : n = Len(c)
  BY <1>3, ElementsOf
<1>5. PICK l \in Nat : CallsAt(a, b, c, l)
  BY <1>2, <1>3 DEF ChatAt
<1>6. SlotsAt(conv, b, n) /\ ChatBlockAt(a, b, n, block, reasons)
  BY <1>2, <1>3, <1>4 DEF ChatAt
<1>7. PICK text \in Pieces : text = Piece /\ text # <<>>
  BY <1>3, ProviderFields
<1>8. ASSUME NEW call \in {"named", "unnamed"},
             ChatReceives(Chunk(FALSE, <<>>, <<>>, Len(given.calls), call, Piece, FALSE), "tool_use", 1, "open"),
             given' = [given EXCEPT !.calls = Append(@, Piece)],
             habits' = IF call = "unnamed" THEN habits \cup {"unnamed_call"} ELSE habits
      PROVE  Goes(a)
  <2>1. call = "named"
    BY <1>8
  <2>2. PICK chunk : /\ chunk = Chunk(FALSE, <<>>, <<>>, n, "named", text, FALSE)
                     /\ ChatReceives(chunk, "tool_use", 1, "open")
    BY <1>2, <1>4, <1>7, <1>8, <2>1
  <2>3. /\ provider'.phase = "open" /\ provider'.block = "tool_use" /\ protocol' = "chat"
        /\ conv' = ChatConvert(chunk).st /\ core' = ChatConvert(chunk).out
    BY <1>1, <1>3, <2>2, ReceivesTo
  <2>4. PICK d \in Seq(Pieces) : d = Append(c, text)
    BY <1>3, AppendProperties
  <2>5. given'.text = t /\ given'.reasoning = r /\ given'.calls = d
    BY <1>2, <1>3, <1>7, <1>8, <2>4, GivenCall
  <2>6. PICK i \in Nat, o \in Nat : i = b + 1 + n /\ o = n + 1
    OBVIOUS
  <2>7. /\ n \notin DOMAIN conv.toolCallSlot /\ SlotOf(n) = i /\ i \notin conv.callStarted
        /\ \A tt : /\ tt.toolCallSlot = Slotted(n).toolCallSlot /\ tt.toolCallIdx = Slotted(n).toolCallIdx
                   /\ tt.callStarted = conv.callStarted \cup {i}
                   => SlotsAt(tt, b, o)
    <3>1. /\ conv \in ChatState /\ b \in Nat /\ conv.blockIndex = b /\ n \in Nat /\ SlotsAt(conv, b, n)
          /\ i \in Nat /\ i = b + 1 + n /\ o = n + 1
      BY <1>2, <1>3, <1>6, <2>6
    <3> QED
      BY ONLY <3>1, NewSlot
  <2>8. PICK st \in ChatState :
          /\ st = Slotted(n) /\ st.callStarted = conv.callStarted
          /\ st.blockIndex = b /\ st.hasReasoning = reasons
    BY <1>2, <1>3, SlottedTyped
  <2>9. /\ conv' = [st EXCEPT !.callStarted = @ \cup {i}]
        /\ core' = <<BlockStarted(i, "tool_use"), Delta("args_delta", i, text)>>
    <3>1. CallConverts(chunk, n, "named", text, i)
      BY <1>3, <1>7, <2>2, <2>7, ConvertsCall
    <3> QED
      BY <2>3, <2>7, <2>8, <3>1 DEF CallConverts
  <2>10. PICK tt : tt = conv'
    OBVIOUS
  <2>11. /\ tt.toolCallSlot = st.toolCallSlot /\ tt.toolCallIdx = st.toolCallIdx
         /\ tt.callStarted = conv.callStarted \cup {i} /\ tt.blockIndex = b /\ tt.hasReasoning = reasons
    BY <2>8, <2>9, <2>10 DEF ChatState
  <2>12. SlotsAt(tt, b, o)
    BY <2>7, <2>8, <2>11
  <2>13. PICK m \in Accounts, g \in Accounts :
           /\ Starts(a, i, "tool_use", m) /\ AddsArgs(m, i, text, g) /\ Sums(g, t, r, d)
           /\ CallsAt(g, b, d, l) /\ ChatBlockAt(g, b, o, "tool_use", reasons)
    <3>1. /\ a \in Accounts /\ b \in Nat /\ n \in Nat /\ c \in Seq(Pieces) /\ n = Len(c)
          /\ l \in Nat /\ CallsAt(a, b, c, l) /\ ChatBlockAt(a, b, n, block, reasons)
          /\ text \in Pieces /\ Sums(a, t, r, c) /\ i \in Nat /\ i = b + 1 + n
          /\ d = Append(c, text) /\ o = n + 1
      BY <1>3, <1>4, <1>5, <1>6, <2>4, <2>6
    <3>2. NextCall(a, i, text, b, o, l, reasons, t, r, d)
      BY ONLY <3>1, NewCall
    <3> QED
      BY <3>2 DEF NextCall
  <2>14. Len(d) = o
    BY <1>3, <1>4, <2>4, <2>6, AppendProperties
  <2>15. ChatAt(g, tt, "tool_use", d)
    BY <2>11, <2>12, <2>13, <2>14 DEF ChatAt
  <2>16. Runs(a, core', g)
    BY <2>9, <2>13, FollowsStart, FollowsArgs, RunsTwo
  <2>17. Rest(g)'
    <3>1. ChatAt(g, conv', provider'.block, given'.calls)
      BY <2>3, <2>5, <2>10, <2>15
    <3>2. Sums(g, given'.text, given'.reasoning, given'.calls)
      BY <2>5, <2>13
    <3> QED
      BY <2>3, <3>1, <3>2, ChatRest
  <2> QED
    BY <2>16, <2>17 DEF Goes
<1>9. ASSUME NEW p \in 1..Len(given.calls),
             ChatReceives(Chunk(FALSE, <<>>, <<>>, p - 1, "unnamed", Piece, FALSE), "tool_use", 1, "open"),
             GaveCall(p)
      PROVE  Goes(a)
  <2>1. p \in 1..n
    BY <1>2, <1>4
  <2>2. PICK pos \in Nat, i \in Nat : pos = p - 1 /\ i = b + p
    BY <2>1
  <2>3. PICK chunk : /\ chunk = Chunk(FALSE, <<>>, <<>>, pos, "unnamed", text, FALSE)
                     /\ ChatReceives(chunk, "tool_use", 1, "open")
    BY <1>7, <1>9, <2>2
  <2>4. /\ provider'.phase = "open" /\ provider'.block = "tool_use" /\ protocol' = "chat"
        /\ conv' = ChatConvert(chunk).st /\ core' = ChatConvert(chunk).out
    BY <1>1, <1>3, <2>3, ReceivesTo
  <2>5. PICK d : d = given'.calls
    OBVIOUS
  <2>6. /\ given'.text = t /\ given'.reasoning = r
        /\ d \in Seq(Pieces) /\ Len(d) = n /\ d[p] = c[p] \o text
        /\ \A k \in 1..n : k # p => d[k] = c[k]
    BY <1>2, <1>3, <1>4, <1>7, <1>9, <2>5, GivenArgs
  <2>7. SlotOf(pos) = i /\ i \in conv.callStarted /\ Slotted(pos) = conv
    <3>1. PICK slots : slots = conv.toolCallSlot
      OBVIOUS
    <3>2. pos \in 0..(n - 1) /\ i \in (b + 1)..(b + n) /\ b + 1 + pos = i
      BY <2>1, <2>2
    <3>3. pos \in DOMAIN slots /\ slots[pos] = i /\ i \in conv.callStarted
      BY <1>6, <3>1, <3>2 DEF SlotsAt
    <3> QED
      BY <3>1, <3>3 DEF SlotOf, Slotted
  <2>8. conv' = conv /\ core' = <<Delta("args_delta", i, text)>>
    <3>1. CallConverts(chunk, pos, "unnamed", text, i)
      BY <1>3, <1>7, <2>3, <2>7, ConvertsCall
    <3> QED
      BY <2>4, <2>7, <3>1 DEF CallConverts
  <2>9. PICK g \in Accounts :
          /\ AddsArgs(a, i, text, g) /\ Sums(g, t, r, d)
          /\ CallsAt(g, b, d, l) /\ ChatBlockAt(g, b, n, "tool_use", reasons)
    BY <1>3, <1>4, <1>5, <1>6, <2>1, <2>2, <2>6, MoreOfCall
  <2>10. PICK tt : tt = conv'
    OBVIOUS
  <2>11. SlotsAt(tt, b, n) /\ tt.blockIndex = b /\ tt.hasReasoning = reasons
    BY <1>2, <1>6, <2>8, <2>10
  <2>12. ChatAt(g, tt, "tool_use", d)
    BY <2>6, <2>9, <2>11 DEF ChatAt
  <2>13. Runs(a, core', g)
    BY <2>8, <2>9, FollowsArgs, RunsOne
  <2>14. Rest(g)'
    <3>1. ChatAt(g, conv', provider'.block, given'.calls)
      BY <2>4, <2>5, <2>10, <2>12
    <3>2. Sums(g, given'.text, given'.reasoning, given'.calls)
      BY <2>5, <2>6, <2>9
    <3> QED
      BY <2>4, <3>1, <3>2, ChatRest
  <2> QED
    BY <2>13, <2>14 DEF Goes
<1> QED
  BY <1>8, <1>9 DEF ChatCallChunk

-----------------------------------------------------------------------------
(***************************************************************************)
(* The last chunk of Chat Completions ends every block.                    *)
(***************************************************************************)

\* The block before the calls ends.
LEMMA BlockEnds ==
  ASSUME NEW a \in Accounts, NEW i \in Nat, i \in a.begun \/ i \in a.open,
         NEW t, NEW r, NEW c, Sums(a, t, r, c)
  PROVE  \E y \in Accounts :
            /\ EndsBlock(a, i, y) /\ Sums(y, t, r, c) /\ y.open = a.open \ {i}
            /\ \A j \in DOMAIN a.at : IsCall(a, j) => IsCall(y, j)
<1>1. CASE i \in a.open
  <2>1. PICK y \in Accounts :
          /\ EndsBlock(a, i, y) /\ Sums(y, t, r, c)
          /\ y.open = a.open \ {i} /\ y.items = a.items /\ y.at = a.at
    BY <1>1, OpenEnds
  <2>2. \A j \in DOMAIN a.at : IsCall(a, j) => IsCall(y, j)
    BY <2>1 DEF IsCall, ItemAt
  <2> QED
    BY <2>1, <2>2
<1>2. CASE i \in a.begun
  <2>1. "message" \in ItemTypes /\ <<>> \in Pieces /\ i \notin DOMAIN a.at
    BY <1>2, AccountIs DEF ItemTypes, Pieces, Placing
  <2>2. PICK type \in ItemTypes, e \in Pieces : type = "message" /\ e = <<>>
    BY <2>1
  <2>3. PICK m : m = Opened(a, i, type, e)
    OBVIOUS
  <2>4. /\ m \in Accounts /\ Len(m.items) = Len(a.items) + 1
        /\ \A n \in 1..Len(a.items) : m.items[n] = a.items[n]
        /\ m.items[Len(a.items) + 1] = [type |-> type, text |-> e]
        /\ DOMAIN m.at = DOMAIN a.at \cup {i} /\ m.at[i] = Len(a.items) + 1
        /\ \A j \in DOMAIN a.at : j # i => m.at[j] = a.at[j]
        /\ m.begun = a.begun \ {i} /\ m.open = a.open \cup {i}
    BY ONLY <2>1, <2>3, a \in Accounts, i \in Nat, type \in ItemTypes, e \in Pieces, OpenedIs
  <2>5. PICK y : y = Shut(m, i)
    OBVIOUS
  <2>6. y \in Accounts /\ y.items = m.items /\ y.at = m.at /\ y.open = m.open \ {i}
    BY <2>4, <2>5, ShutIs
  <2>7. EndsBlock(a, i, y)
    BY <1>2, <2>2, <2>3, <2>5 DEF EndsBlock
  <2>8. Sums(y, t, r, c)
    <3>1. Sums(m, t, r, c)
      BY <2>1, <2>2, <2>3, SumsOfEmpty
    <3> QED
      BY <2>6, <3>1, SumsSame
  <2>9. ASSUME NEW j \in DOMAIN a.at, IsCall(a, j) PROVE IsCall(y, j)
    <3>1. a.at[j] \in 1..Len(a.items) /\ j # i
      BY <2>1, AccountIs DEF Placing
    <3>2. ItemAt(y, j) = ItemAt(a, j)
      BY <2>4, <2>6, <3>1 DEF ItemAt
    <3> QED
      BY <2>9, <3>2 DEF IsCall
  <2> QED
    BY <2>4, <2>6, <2>7, <2>8, <2>9
<1> QED
  BY <1>1, <1>2

\* The blocks up to i have ended, and those after it are calls.
EndedTo(a, queue, i, last, t, r, c) ==
    \E y \in Accounts :
        /\ Runs(a, queue, y) /\ Sums(y, t, r, c) /\ y.open = (i + 1)..last
        /\ \A j \in y.open : IsCall(y, j)

LEMMA EndsNext ==
  ASSUME NEW a \in Accounts, NEW queue \in Seq(CoreEvent), NEW k \in Nat, NEW last \in Nat,
         NEW t, NEW r, NEW c, EndedTo(a, queue, k, last, t, r, c), NEW i \in Nat, i = k + 1, i <= last,
         NEW longer, longer = queue \o Ending(i)
  PROVE  EndedTo(a, longer, i, last, t, r, c)
<1>1. PICK y \in Accounts :
        /\ Runs(a, queue, y) /\ Sums(y, t, r, c) /\ y.open = (k + 1)..last
        /\ \A j \in y.open : IsCall(y, j)
  BY DEF EndedTo
<1>2. i \in y.open /\ IsCall(y, i) /\ i \in DOMAIN y.at
  <2>1. i \in (k + 1)..last
    OBVIOUS
  <2> QED
    BY <1>1, <2>1, AccountIs DEF Placing
<1>3. PICK z : z = Shut(y, i)
  OBVIOUS
<1>4. z \in Accounts /\ z.items = y.items /\ z.at = y.at /\ z.open = y.open \ {i}
  BY <1>3, ShutIs
<1>5. PICK text \in Pieces : text = <<>>
  <2>1. <<>> \in Pieces
    BY DEF Pieces
  <2> QED
    BY <2>1
<1>6. EndsArgs(y, i, text, z)
  BY <1>2, <1>3, <1>5 DEF EndsArgs
<1>7. \A j : IsCall(y, j) <=> IsCall(z, j)
  BY <1>4 DEF IsCall, ItemAt
<1>8. EndsBlock(z, i, z)
  BY <1>2, <1>4, <1>7 DEF EndsBlock
<1>9. PICK d \in CoreEvent, e \in CoreEvent : d = Delta("args_done", i, text) /\ e = BlockDone(i)
  BY <1>6, <1>8, FollowsArgsDone, FollowsDone
<1>10. Follows(y, d, z) /\ Follows(z, e, z)
  BY <1>6, <1>8, <1>9, FollowsArgsDone, FollowsDone
<1>11. PICK q \in Seq(CoreEvent) : q = Append(queue, d)
  BY AppendProperties
<1>12. longer = Append(q, e)
  <2>1. longer = queue \o <<d, e>>
    BY <1>5, <1>9 DEF Ending
  <2> QED
    BY <1>11, <2>1, TwoMore
<1>13. Runs(a, q, z)
  BY <1>1, <1>10, <1>11, RunsMore
<1>14. Runs(a, longer, z)
  BY <1>10, <1>12, <1>13, RunsMore
<1>15. z.open = (i + 1)..last
  BY <1>1, <1>4
<1>16. Sums(z, t, r, c) /\ \A j \in z.open : IsCall(z, j)
  BY <1>1, <1>4, <1>7, SumsSame
<1> QED
  BY <1>4, <1>14, <1>15, <1>16 DEF EndedTo

LEMMA FinishRuns ==
  ASSUME NEW a \in Accounts, NEW b \in Nat, NEW n \in Nat, NEW c \in Seq(Pieces), n = Len(c),
         NEW l \in Nat, CallsAt(a, b, c, l), NEW block, NEW reasons, ChatBlockAt(a, b, n, block, reasons),
         NEW t, NEW r, Sums(a, t, r, c), NEW started, started = (b + 1)..(b + n),
         NEW queue, queue = <<BlockDone(b)>> \o Flat(Stops(b, n, started)),
         NEW last, last = b + n
  PROVE  EndedTo(a, queue, last, last, t, r, c)
<1> DEFINE seqs == Stops(b, n, started)
           first == <<BlockDone(b)>>
<1>1. /\ Len(seqs) = n
      /\ \A k \in 1..n : seqs[k] = Ending(b + k) /\ seqs[k] \in Seq(CoreEvent)
  <2>1. seqs \in Seq(Seq(CoreEvent)) /\ Len(seqs) = n
    BY StopsTyped
  <2>2. \A k \in 1..n : b + k \in started => seqs[k] = Ending(b + k)
    BY StopsTyped
  <2>3. \A k \in 1..n : b + k \in started
    OBVIOUS
  <2> HIDE DEF seqs
  <2>4. \A k \in 1..n : seqs[k] \in Seq(CoreEvent)
    BY <2>1, ElementsOf
  <2> QED
    BY <2>1, <2>2, <2>3, <2>4
<1>2. /\ a.open = ({b} \ a.begun) \cup ((b + 1)..(b + n))
      /\ \A k \in 1..n : a.items[l + k] = [type |-> "function_call", text |-> c[k]] /\ a.at[b + k] = l + k
      /\ b \in a.begun \/ b \in a.open
  BY DEF ChatBlockAt, CallsAt
<1>3. ASSUME NEW j \in (b + 1)..(b + n) PROVE IsCall(a, j) /\ j \in DOMAIN a.at
  <2>1. PICK k \in 1..n : j = b + k
    <3>1. j - b \in 1..n /\ j = b + (j - b)
      OBVIOUS
    <3> QED
      BY <3>1
  <2>2. PICK x : x = l + k
    OBVIOUS
  <2>3. a.items[x].type = "function_call" /\ a.at[j] = x
    <3>1. a.items[l + k] = [type |-> "function_call", text |-> c[k]] /\ a.at[b + k] = l + k
      BY <1>2
    <3>2. a.items[x] = [type |-> "function_call", text |-> c[k]] /\ a.at[j] = x
      BY <2>1, <2>2, <3>1
    <3> QED
      BY <3>2
  <2>4. j \in a.open
    BY <1>2
  <2>5. j \in DOMAIN a.at
    BY <2>4, AccountIs DEF Placing
  <2> QED
    BY <2>3, <2>5 DEF IsCall, ItemAt
<1>4. PICK y \in Accounts :
        /\ EndsBlock(a, b, y) /\ Sums(y, t, r, c) /\ y.open = a.open \ {b}
        /\ \A j \in DOMAIN a.at : IsCall(a, j) => IsCall(y, j)
  BY <1>2, BlockEnds
<1>5. y.open = (b + 1)..last
  <2>1. b \notin (b + 1)..(b + n)
    OBVIOUS
  <2> QED
    BY <1>2, <1>4, <2>1
<1>6. \A j \in y.open : IsCall(y, j)
  BY <1>3, <1>4, <1>5
<1>7. Runs(a, first, y)
  BY <1>4, FollowsDone, RunsOne
<1>8. EndedTo(a, first, b, last, t, r, c)
  BY <1>4, <1>5, <1>6, <1>7 DEF EndedTo
<1>9. first \in Seq(CoreEvent)
  <2>1. BlockDone(b) \in CoreEvent
    BY EventsTyped
  <2> QED
    BY <2>1
<1> HIDE DEF seqs, first
<1>10. PICK f : f[0] = <<>> /\ Flat(seqs) = f[n] /\ \A k \in 1..n : f[k] = f[k - 1] \o seqs[k]
  BY <1>1, FlatSteps
<1>11. \A k \in 0..n : f[k] \in Seq(CoreEvent)
  BY <1>1, <1>10, FlatTyped
<1> DEFINE q(k) == first \o f[k]
           T == {k \in 0..n : EndedTo(a, q(k), b + k, last, t, r, c)}
<1>12. 0 \in T
  <2>1. q(0) = first
    BY <1>9, <1>10, ConcatEmptySeq
  <2>2. 0 \in 0..n /\ b + 0 = b
    OBVIOUS
  <2> HIDE DEF q
  <2> QED
    BY <1>8, <2>1, <2>2
<1>13. ASSUME NEW k \in 1..n, k - 1 \in T PROVE k \in T
  <2>1. PICK i \in Nat, j \in 0..n, h \in Nat : i = b + k /\ j = k - 1 /\ h = b + j
    OBVIOUS
  <2>2. k \in 0..n /\ i = h + 1 /\ i <= last /\ last \in Nat
    BY <2>1
  <2>3. EndedTo(a, q(j), h, last, t, r, c)
    <3> HIDE DEF q
    <3> QED
      BY <1>13, <2>1
  <2>4. f[j] \in Seq(CoreEvent) /\ seqs[k] \in Seq(CoreEvent) /\ f[k] = f[j] \o seqs[k] /\ seqs[k] = Ending(i)
    BY <1>1, <1>10, <1>11, <2>1
  <2>5. q(k) = q(j) \o Ending(i) /\ q(j) \in Seq(CoreEvent)
    <3>1. PICK x, y1, z : x = first /\ y1 = f[j] /\ z = seqs[k]
      OBVIOUS
    <3>2. x \in Seq(CoreEvent) /\ y1 \in Seq(CoreEvent) /\ z \in Seq(CoreEvent)
      BY <1>9, <2>4, <3>1
    <3>3. (x \o y1) \o z = x \o (y1 \o z) /\ x \o y1 \in Seq(CoreEvent)
      BY ONLY <3>2, ConcatAssociative, ConcatProperties
    <3> QED
      BY <2>4, <3>1, <3>3
  <2>6. PICK old \in Seq(CoreEvent), new \in {q(k)} : old = q(j) /\ new = q(k)
    BY <2>5
  <2> HIDE DEF q
  <2>7. EndedTo(a, new, i, last, t, r, c)
    BY <2>2, <2>3, <2>5, <2>6, EndsNext
  <2> QED
    BY <2>1, <2>2, <2>6, <2>7
<1> HIDE DEF T
<1>14. \A k \in 0..n : k \in T
  BY <1>12, <1>13, AllUpTo
<1>15. n \in 0..n
  OBVIOUS
<1>16. n \in T
  BY <1>14, <1>15
<1>17. EndedTo(a, q(n), b + n, last, t, r, c)
  BY <1>16 DEF T
<1> QED
  BY <1>10, <1>17 DEF seqs, first

LEMMA ChatFinishGoes ==
  ASSUME ChatFinishChunk, ProviderTyped, NEW a \in Accounts, Rest(a), NEW fits, Can(fits)
  PROVE  Goes(a)
<1>1. protocol = "chat" /\ provider.phase = "open"
  BY DEF ChatFinishChunk, Ready
<1>0. PICK b \in Nat, reasons \in BOOLEAN : b = conv.blockIndex /\ reasons = conv.hasReasoning
  BY <1>1, ChatNowAt
<1>2. PICK block, t, r, c :
        /\ b = conv.blockIndex /\ reasons = conv.hasReasoning /\ block = provider.block
        /\ t = given.text /\ r = given.reasoning /\ c = given.calls
  BY <1>0
<1>3. /\ provider \in Provider /\ GivenTyped /\ conv \in ChatState /\ conv.started
      /\ Sums(a, t, r, c) /\ c \in Seq(Pieces) /\ ChatAt(a, conv, block, c)
  BY <1>1, <1>2, ChatNowAt
<1>4. PICK n \in Nat : n = Len(c)
  BY <1>3, ElementsOf
<1>5. PICK l \in Nat : CallsAt(a, b, c, l)
  BY <1>2, <1>3 DEF ChatAt
<1>6. SlotsAt(conv, b, n) /\ ChatBlockAt(a, b, n, block, reasons)
  BY <1>2, <1>3, <1>4 DEF ChatAt
<1>7. PICK chunk : /\ chunk = Chunk(FALSE, <<>>, <<>>, 0, "none", <<>>, TRUE)
                   /\ ChatReceives(chunk, provider.block, 0, "stopped")
  BY DEF ChatFinishChunk
<1>8. /\ provider'.phase = "stopped" /\ protocol' = "chat" /\ core' = ChatConvert(chunk).out
  BY <1>1, <1>3, <1>7, ReceivesTo
<1>9. PICK count \in Nat :
        /\ count = CallsTo(conv)
        /\ ChatConvert(chunk).out =
             <<BlockDone(conv.blockIndex)>> \o Flat(Stops(conv.blockIndex, count, conv.callStarted))
  BY <1>3, <1>7, ConvertsFinish
<1>10. count = n
  <2>1. PICK idx : idx = conv.toolCallIdx
    OBVIOUS
  <2>2. idx = IF n = 0 THEN 0 ELSE b + 1 + n
    BY <1>6, <2>1 DEF SlotsAt
  <2>3. count = IF idx > b + 1 THEN idx - b - 1 ELSE 0
    BY <1>2, <1>9, <2>1 DEF CallsTo
  <2> QED
    BY ONLY <2>2, <2>3, b \in Nat, n \in Nat
<1>11. PICK started, last, queue :
         started = conv.callStarted /\ last = b + n /\ queue = core'
  OBVIOUS
<1>12. started = (b + 1)..(b + n)
  BY <1>6, <1>11 DEF SlotsAt
<1>13. queue = <<BlockDone(b)>> \o Flat(Stops(b, n, started))
  BY <1>2, <1>8, <1>9, <1>10, <1>11
<1>14. EndedTo(a, queue, last, last, t, r, c)
  BY <1>3, <1>4, <1>5, <1>6, <1>11, <1>12, <1>13, FinishRuns
<1>15. PICK y \in Accounts : Runs(a, queue, y) /\ Sums(y, t, r, c) /\ y.open = (last + 1)..last
  BY <1>14 DEF EndedTo
<1>16. y.open = {}
  BY <1>11, <1>15
<1>17. given'.text = t /\ given'.reasoning = r /\ given'.calls = c
  BY <1>2 DEF ChatFinishChunk
<1>18. Sums(y, given'.text, given'.reasoning, given'.calls)
  BY <1>15, <1>17
<1>19. Rest(y)'
  BY <1>8, <1>16, <1>18 DEF Rest
<1> QED
  BY <1>11, <1>15, <1>19 DEF Goes

-----------------------------------------------------------------------------
(***************************************************************************)
(* Of a stream in the usual order: the blocks and the items are those of   *)
(* an account, the events that wait make of it another one, and in that    *)
(* one is all that was given.                                              *)
(***************************************************************************)

Kept == habits = {} => \E a, b : Accounted(a) /\ Runs(a, core, b) /\ Rest(b)

LEMMA ProvidesGoes ==
  ASSUME Provide, Inv, NEW a, Accounted(a), Rest(a), habits' = {}
  PROVE  Goes(a)
<1>1. a \in Accounts /\ ProviderTyped
  BY DEF Accounted, Inv
<1>2. PICK fits : fits = Expected /\ Can(fits)
  BY DEF Inv
<1>3. CASE MessageStart \/ MessageDelta \/ MessageStop \/ Breaks \/ ChannelClosed \/ WholeStart \/ WholeEnd
  BY <1>1, <1>3, PlainGoes
<1>4. CASE ContentBlockStart \/ ContentBlockDelta \/ ContentBlockStop
  BY <1>1, <1>2, <1>4, BlockStartGoes, BlockDeltaGoes, BlockStopGoes
<1>5. CASE ChatRole \/ ChatReasoningChunk \/ ChatTextChunk \/ ChatCallChunk \/ ChatFinishChunk
  BY <1>1, <1>2, <1>5, ChatRoleGoes, ChatReasoningGoes, ChatTextGoes, ChatCallGoes, ChatFinishGoes
<1>6. CASE GoogleChunk \/ WholeNextBlock
  BY <1>1, <1>2, <1>6, GoogleChunkGoes, WholeNextGoes
<1> QED
  BY <1>3, <1>4, <1>5, <1>6, Zenon DEF Provide

LEMMA ProvideKeepsAccount == ASSUME Inv, Provide, Kept PROVE Kept'
<1> SUFFICES ASSUME habits' = {} PROVE \E a, b : Accounted(a)' /\ Runs(a, core', b) /\ Rest(b)'
  BY DEF Kept
<1>1. core = <<>> /\ Quiet /\ habits = {}
  BY HabitsStay
<1>2. PICK a, b : Accounted(a) /\ Runs(a, core, b) /\ Rest(b)
  BY <1>1 DEF Kept
<1>3. a = b
  BY <1>1, <1>2, RunsOfNone
<1>4. Goes(a)
  BY <1>2, <1>3, ProvidesGoes
<1>5. Accounted(a)'
  BY <1>1, <1>2, AccountedSame DEF Quiet
<1> QED
  BY <1>4, <1>5 DEF Goes

\* What is at rest depends on the provider only.
LEMMA RestSame == ASSUME UNCHANGED providerVars, NEW b, Rest(b) PROVE Rest(b)'
  BY DEF providerVars, Rest

LEMMA TranslateKeepsAccount == ASSUME Inv, Translate, UNCHANGED providerVars, Kept PROVE Kept'
<1> SUFFICES ASSUME habits' = {} PROVE \E a, b : Accounted(a)' /\ Runs(a, core', b) /\ Rest(b)'
  BY DEF Kept
<1>1. LoopTyped /\ core # <<>> /\ core' = Tail(core) /\ habits = {}
  BY LoopTypedOn DEF Inv, providerVars
<1>2. PICK a, c : Accounted(a) /\ Runs(a, core, c) /\ Rest(c)
  BY <1>1 DEF Kept
<1>3. PICK queue \in Seq(CoreEvent) : queue = core
  BY <1>1 DEF LoopTyped
<1>4. PICK b : Follows(a, Head(queue), b) /\ Runs(b, Tail(queue), c)
  BY <1>1, <1>2, <1>3, RunsTail
<1>5. Follows(a, Event, b)
  BY <1>3, <1>4 DEF Event
<1>6. Accounted(b)'
  BY <1>1, <1>2, <1>5, AccountedOn
<1>7. Runs(b, core', c)
  BY <1>1, <1>3, <1>4
<1>8. Rest(c)'
  BY <1>2, RestSame
<1> QED
  BY <1>6, <1>7, <1>8

LEMMA StutterKeepsAccount == ASSUME UNCHANGED vars, Kept PROVE Kept'
<1> SUFFICES ASSUME habits' = {} PROVE \E a, b : Accounted(a)' /\ Runs(a, core', b) /\ Rest(b)'
  BY DEF Kept
<1>1. UNCHANGED <<output, maps>> /\ UNCHANGED providerVars /\ core' = core /\ habits' = habits
  BY DEF vars, responseVars, providerVars
<1>2. PICK a, b : Accounted(a) /\ Runs(a, core, b) /\ Rest(b)
  BY <1>1 DEF Kept
<1>3. Accounted(a)' /\ Rest(b)'
  BY <1>1, <1>2, AccountedSame, RestSame
<1> QED
  BY <1>1, <1>2, <1>3

LEMMA BeginsAccount == ASSUME Init PROVE Kept
<1>1. /\ core = <<>> /\ output = <<>>
      /\ contentText = <<>> /\ toolCallArgs = <<>> /\ outputIndexes = <<>>
      /\ reasonIndexes = {} /\ toolCallFinalized = {}
  BY DEF Init, InitResponse
<1>2. PICK a : a = Blank
  OBVIOUS
<1>3. /\ a \in Accounts /\ \A j : ~ Known(a, j) /\ a.open = {} /\ Sums(a, <<>>, <<>>, <<>>)
      /\ a.begun = {} /\ a.items = <<>> /\ DOMAIN a.at = {}
  BY <1>2, BlankIs DEF Blank
<1>4. Accounted(a)
  <2>1. Len(output) = Len(a.items) /\ 1..Len(output) = {}
    BY <1>1, <1>3
  <2>2. DOMAIN contentText = {} /\ DOMAIN toolCallArgs = {} /\ DOMAIN outputIndexes = {}
    BY <1>1
  <2>3. \A i : ~ KnownTo(i)
    BY <1>1, <2>2 DEF KnownTo, Has
  <2>4. \A i \in Nat : BlockIs(a, i)
    BY <1>3, <2>3 DEF BlockIs
  <2> QED
    BY <1>3, <2>1, <2>4 DEF Accounted
<1>5. Runs(a, core, a)
  BY <1>1, <1>3, RunsNone
<1>6. Rest(a)
  <2>1. /\ provider.phase = "start"
        /\ given.text = <<>> /\ given.reasoning = <<>> /\ given.calls = <<>>
        /\ protocol = "anthropic" => conv.suppressText = {}
        /\ protocol = "google" => conv.prevText = <<>>
    BY DEF Init, AnthropicConv, ChatConv, GoogleConv
  <2> QED
    BY <1>2, <1>3, <2>1 DEF Rest
<1> QED
  BY <1>4, <1>5, <1>6 DEF Kept

\* At the end the items of the answer are those of the account.
LEMMA KeptWhole == ASSUME Kept PROVE ContentArrivesWhole
<1> SUFFICES ASSUME Ended, habits = {}
             PROVE  /\ TextOf("message") = given.text
                    /\ TextOf("reasoning") = given.reasoning
                    /\ Calls = given.calls
                    /\ \A n \in 1..Len(output) : output[n].status = "completed"
  BY DEF ContentArrivesWhole
<1>1. provider.phase = "closed" /\ core = <<>>
  BY DEF Ended
<1>2. PICK a, b : Accounted(a) /\ Runs(a, core, b) /\ Rest(b)
  BY DEF Kept
<1>3. a = b
  BY <1>1, <1>2, RunsOfNone
<1>4. Sums(a, given.text, given.reasoning, given.calls) /\ a.open = {}
  BY <1>1, <1>2, <1>3 DEF Rest
<1>5. /\ Len(output) = Len(a.items)
      /\ \A n \in 1..Len(output) : /\ output[n].type = a.items[n].type
                                   /\ output[n].status = "completed" /\ output[n].text = a.items[n].text
  BY <1>2, <1>4 DEF Accounted, PlaceIs, Finished
<1>6. ASSUME NEW type PROVE TextOf(type) = Worth(a.items, type)
  <2>1. [n \in 1..Len(output) |-> IF output[n].type = type THEN output[n].text ELSE <<>>]
          = TextParts(a.items, type)
    BY <1>5 DEF TextParts
  <2> QED
    BY <2>1 DEF TextOf, Worth
<1>7. Calls = CallList(a.items)
  <2>1. [n \in 1..Len(output) |-> IF output[n].type = "function_call" THEN <<output[n].text>> ELSE <<>>]
          = CallParts(a.items)
    BY <1>5 DEF CallParts
  <2> QED
    BY <2>1 DEF Calls, CallList
<1> QED
  BY <1>4, <1>5, <1>6, <1>7 DEF Sums

\* At the end of a stream in the usual order the answer has all the text, reasoning and
\* arguments that were given, in their order, and every item is completed.
THEOREM ArrivesWhole == Spec => []ContentArrivesWhole
<1>1. Init => Inv /\ Kept
  BY Begins, BeginsAccount
<1>2. Inv /\ Kept /\ [Next]_vars => Inv' /\ Kept'
  <2> SUFFICES ASSUME Inv, Kept, [Next]_vars PROVE Inv' /\ Kept'
    OBVIOUS
  <2>1. CASE Provide
    BY <2>1, ProvideKeeps, ProvideKeepsAccount
  <2>2. CASE Translate /\ UNCHANGED providerVars
    BY <2>2, TranslateKeeps, TranslateKeepsAccount
  <2>3. CASE UNCHANGED vars
    BY <2>3, StutterKeeps, StutterKeepsAccount
  <2> QED
    BY <2>1, <2>2, <2>3 DEF Next
<1>3. Kept => ContentArrivesWhole
  BY KeptWhole
<1> QED
  BY <1>1, <1>2, <1>3, PTL DEF Spec
=============================================================================
