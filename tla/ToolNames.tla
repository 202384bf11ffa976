----------------------------- MODULE ToolNames -----------------------------
(***************************************************************************)
(* The tools that a Responses client declares, under the names that the    *)
(* model gets for them, and the items by which the client gets the calls   *)
(* (openai/adapter.go, codextool/customtool.go, codextool/tool_context.go).*)
(* A name is the sequence of its parts: joining two names by "_" appends   *)
(* the parts, and so two tools may come to have one name.                  *)
(***************************************************************************)
EXTENDS SequencesExt

Actions == {"add_file", "delete_file", "update_file", "replace_file", "batch"}
ActionNames == <<"add_file", "delete_file", "update_file", "replace_file", "batch">>

\* A tool a client declares. Namespaces hold tools; one within another is left out.
Declared(type, name, grammar) ==
    [type |-> type, name |-> name, grammar |-> grammar, tools |-> <<>>]
Namespace(name, tools) ==
    [type |-> "namespace", name |-> name, grammar |-> "none", tools |-> tools]

InNamespace ==
    [type : STRING \ {"namespace"}, name : Seq(STRING), grammar : STRING, tools : {<<>>}]
DeclaredTools == [type : STRING, name : Seq(STRING), grammar : STRING, tools : Seq(InNamespace)]

\* A tool as the model gets it, and what is remembered of its origin.
CoreTool(name, kind, openai, namespace) ==
    [name |-> name, kind |-> kind, openai |-> openai, namespace |-> namespace]

NamespacedToolName(namespace, name) == namespace \o name

ApplyPatchProxies(name, openai) ==
    [k \in 1..5 |-> CoreTool(name \o <<ActionNames[k]>>, "apply_patch", openai, <<>>)]

\* Mutant: a function keeps its flattened name and no namespace.
ConvertFunctionFlat(tool, namespace) ==
    <<CoreTool(namespace \o tool.name, "function", namespace \o tool.name, <<>>)>>

ConvertFunction(tool, namespace) ==
    <<CoreTool(NamespacedToolName(namespace, tool.name), "function", tool.name, namespace)>>

\* rawPatch: apply_patch is not split into one tool for each action.
ConvertCustom(tool, namespace, rawPatch) ==
    LET name == NamespacedToolName(namespace, tool.name)
    IN CASE tool.name = <<"local_shell">> ->
                <<CoreTool(name, "local_shell", tool.name, <<>>)>>
         [] tool.name # <<"local_shell">> /\ tool.grammar = "patch" /\ ~rawPatch ->
                ApplyPatchProxies(name, tool.name)
         [] tool.name # <<"local_shell">> /\ tool.grammar = "exec" ->
                <<CoreTool(name, "exec", tool.name, <<>>)>>
         [] OTHER -> <<CoreTool(name, "raw", tool.name, <<>>)>>

\* The tools of OpenAI's own have their type's name, and nothing is remembered of
\* them, nor of tools of types that are not known.
OpenAITypes == {"web_search", "web_search_preview", "file_search", "code_interpreter",
                "computer_use_preview"}
OtherName(tool, namespace) ==
    IF tool.type \in OpenAITypes THEN <<tool.type>> ELSE NamespacedToolName(namespace, tool.name)

ConvertPlain(tool, namespace, rawPatch) ==
    CASE tool.type = "function" -> ConvertFunction(tool, namespace)
      [] tool.type = "custom" -> ConvertCustom(tool, namespace, rawPatch)
      [] OTHER -> <<CoreTool(OtherName(tool, namespace), "none", <<>>, <<>>)>>

Names(tools) == {tools[k].name : k \in DOMAIN tools}

FirstOfName(tools) ==
    LET kept[n \in 0..Len(tools)] ==
            IF n = 0 THEN <<>>
            ELSE IF tools[n].name \in Names(kept[n - 1]) THEN kept[n - 1]
            ELSE Append(kept[n - 1], tools[n])
    IN kept[Len(tools)]

FlattenPlain(tools, namespace, rawPatch) ==
    FirstOfName(FlattenSeq([k \in DOMAIN tools |-> ConvertPlain(tools[k], namespace, rawPatch)]))

Convert(tool, rawPatch) ==
    IF tool.type = "namespace"
    THEN FlattenPlain(tool.tools, NamespacedToolName(<<>>, tool.name), rawPatch)
    ELSE ConvertPlain(tool, <<>>, rawPatch)

Flatten(tools, rawPatch) ==
    FirstOfName(FlattenSeq([k \in DOMAIN tools |-> Convert(tools[k], rawPatch)]))

Annotated(tools) == {k \in DOMAIN tools : tools[k].kind # "none"}
ToolMap(tools) ==
    [name \in {tools[k].name : k \in Annotated(tools)} |->
        tools[CHOOSE k \in Annotated(tools) : tools[k].name = name]]

Item(type, name, namespace, input) ==
    [type |-> type, name |-> name, namespace |-> namespace, input |-> input]

\* A tool that stands for a grammar is put back into it if its name begins with
\* "apply_patch_" or "exec_". Of any other call the "input" is taken, which the
\* tools of kind "raw" have, or else the JSON as it is.
Begins(name, part) == Len(name) > 1 /\ name[1] = part
RebuildGrammar(name, kind) ==
    LET rebuilt == CASE Begins(name, "apply_patch") -> kind = "apply_patch"
                     [] Begins(name, "exec") -> kind = "exec"
                     [] OTHER -> kind = "raw"
    IN IF rebuilt THEN "grammar" ELSE "json"

OutputItem(name, map) ==
    IF name \notin DOMAIN map
    THEN Item("function_call", name, <<>>, "json")
    ELSE LET spec == map[name]
         IN CASE spec.kind = "local_shell" -> Item("local_shell_call", <<>>, <<>>, "json")
              [] spec.kind \in {"apply_patch", "exec", "raw"} ->
                    Item("custom_tool_call", spec.openai, <<>>, RebuildGrammar(name, spec.kind))
              [] OTHER -> Item("function_call", spec.openai, spec.namespace, "json")

-----------------------------------------------------------------------------
(* What a client expects: the tools it can be called by, each with the name *)
(* and the namespace it declared, and the names the model knows them by.    *)

Callable(tool, namespace) ==
    LET name == NamespacedToolName(namespace, tool.name)
    IN CASE tool.type = "function" ->
                {[as |-> name, item |-> Item("function_call", tool.name, namespace, "json")]}
         [] tool.type = "custom" /\ tool.name = <<"local_shell">> ->
                {[as |-> name, item |-> Item("local_shell_call", <<>>, <<>>, "json")]}
         [] tool.type = "custom" /\ tool.name # <<"local_shell">> ->
                {[as |-> n, item |-> Item("custom_tool_call", tool.name, namespace, "grammar")] :
                    n \in {name} \cup {name \o <<a>> : a \in Actions}}
         [] OTHER -> LET n == OtherName(tool, namespace)
                     IN {[as |-> n, item |-> Item("function_call", n, <<>>, "json")]}

CallableTools(tools) ==
    UNION {IF tools[k].type = "namespace"
           THEN UNION {Callable(tools[k].tools[j], tools[k].name) : j \in DOMAIN tools[k].tools}
           ELSE Callable(tools[k], <<>>) : k \in DOMAIN tools}
=============================================================================
