-------------------------- MODULE ProviderMessages --------------------------
(***************************************************************************)
(* Core messages as each protocol's adapter sends them (FromCoreRequest of *)
(* the anthropic, chat and google adapters), and a provider's answer as    *)
(* the items that the client gets back (FromCoreResponse, streamLoop).     *)
(***************************************************************************)
EXTENDS InputItems, SequencesExt

Reminder == 0   \* the tag of the text that the DeepSeek plugin puts in

\* The reminder goes before the last message of the user that is not the result
\* of a tool (deepseek_v4, RewriteMessages).
Reinforced(messages) ==
    LET users == {m \in DOMAIN messages :
                    /\ messages[m].role = "user"
                    /\ \E k \in DOMAIN messages[m].content :
                         messages[m].content[k].type # "tool_result"}
    IN IF users = {} THEN messages
       ELSE InsertAt(messages, Max(users), Message("user", <<Block("text", Reminder)>>))

ResultsOnly(m) ==
    m.content # <<>> /\ \A k \in DOMAIN m.content : m.content[k].type = "tool_result"

\* Anthropic: results are the user's, and those of one turn are one message.
AnthropicRole(role) == IF role = "tool" THEN "user" ELSE role

\* Mutant: every result stays a message of its own.
AddApart(messages, m) == Append(messages, Message(AnthropicRole(m.role), m.content))

AddToAnthropic(messages, m) ==
    LET new == Message(AnthropicRole(m.role), m.content)
    IN IF messages # <<>> /\ new.role = "user" /\ Last(messages).role = "user"
          /\ ResultsOnly(new) /\ ResultsOnly(Last(messages))
       THEN [messages EXCEPT ![Len(messages)].content = @ \o new.content]
       ELSE Append(messages, new)

ToAnthropic(messages) ==
    LET upTo[n \in 0..Len(messages)] ==
            IF n = 0 THEN <<>> ELSE AddToAnthropic(upTo[n - 1], messages[n])
    IN upTo[Len(messages)]

\* Chat: a message has a text, one reasoning (the last that is not empty) and
\* calls; a result is a message of its own and says whose it is.
Tags(content, type) ==
    LET blocks == OfType(content, type) IN [k \in DOMAIN blocks |-> blocks[k].tag]
LastReasoning(content) ==
    LET tags == Tags(content, "reasoning")
        said == ElementsAt(tags, {k \in DOMAIN tags : tags[k] # NoReasoning})
    IN IF said = <<>> THEN NoReasoning ELSE Last(said)

ToChatMessage(m) ==
    [role |-> m.role, texts |-> Tags(m.content, "text"),
     reasoning |-> LastReasoning(m.content),
     calls |-> IF m.role = "tool" THEN <<>> ELSE Tags(m.content, "tool_use"),
     result |-> IF m.role = "tool" THEN Tags(m.content, "tool_result") ELSE <<>>]

ToChat(messages) == [m \in DOMAIN messages |-> ToChatMessage(messages[m])]

\* Gemini: there are two roles, which take turns; reasoning is sent as text.
GeminiRole(role) == IF role = "assistant" THEN "model" ELSE "user"
GeminiParts(content) ==
    [k \in DOMAIN content |->
        IF content[k].type = "reasoning" THEN Block("text", content[k].tag) ELSE content[k]]

AddToGemini(contents, m) ==
    LET new == Message(GeminiRole(m.role), GeminiParts(m.content))
    IN IF contents # <<>> /\ Last(contents).role = new.role
       THEN [contents EXCEPT ![Len(contents)].content = @ \o new.content]
       ELSE Append(contents, new)

ToGemini(messages) ==
    LET upTo[n \in 0..Len(messages)] ==
            IF n = 0 THEN <<>> ELSE AddToGemini(upTo[n - 1], messages[n])
    IN upTo[Len(messages)]

-----------------------------------------------------------------------------
\* An answer that is not streamed: the texts before a call, or before the end,
\* are one message; a reasoning does not end the message it comes after, and so
\* is put before it.
TextItem(texts) == IF texts = <<>> THEN <<>> ELSE <<Item("message", "assistant", texts)>>

AddToOutput(out, b) ==
    CASE b.type = "text" -> [out EXCEPT !.texts = Append(@, b.tag)]
      [] b.type = "reasoning" ->
           [out EXCEPT !.items = Append(@, Item("reasoning", "none", <<b.tag>>))]
      [] b.type = "tool_use" ->
           [items |-> Append(out.items \o TextItem(out.texts),
                             Item("function_call", "none", <<b.tag>>)),
            texts |-> <<>>]

FromCoreResponse(content) ==
    LET upTo[n \in 0..Len(content)] ==
            IF n = 0 THEN [items |-> <<>>, texts |-> <<>>]
            ELSE AddToOutput(upTo[n - 1], content[n])
        out == upTo[Len(content)]
    IN out.items \o TextItem(out.texts)

\* A streamed answer: one item for each block, in their order.
StreamItem(b) ==
    CASE b.type = "text" -> Item("message", "assistant", <<b.tag>>)
      [] b.type = "reasoning" -> Item("reasoning", "none", <<b.tag>>)
      [] b.type = "tool_use" -> Item("function_call", "none", <<b.tag>>)

FromCoreStream(content) == [k \in DOMAIN content |-> StreamItem(content[k])]
=============================================================================
