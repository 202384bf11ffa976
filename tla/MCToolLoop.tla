---------------------------- MODULE MCToolLoop ----------------------------
(***************************************************************************)
(* Instances of ToolLoop for TLC: the tools that clients declare.          *)
(***************************************************************************)
EXTENDS ToolLoop

f == Declared("function", <<"f">>, "none")
nf == Declared("function", <<"n", "f">>, "none")
shell == Declared("custom", <<"local_shell">>, "none")
patch == Declared("custom", <<"apply_patch">>, "patch")
exec == Declared("custom", <<"exec">>, "exec")
freeform == Declared("custom", <<"note">>, "none")
search == Declared("web_search", <<"web_search">>, "none")
unknown == Declared("computer", <<"computer">>, "none")

Plain == <<f>>

\* A function of its own and in a namespace; two functions that come to have one
\* name, either first; the tools of Codex, alone and in a namespace.
Lists ==
  { Plain, <<f, Namespace(<<"n">>, <<f>>)>>,
    <<nf, Namespace(<<"n">>, <<f>>)>>, <<Namespace(<<"n">>, <<f>>), nf>>,
    <<shell, freeform, search, unknown>>, <<patch, exec>>, <<Namespace(<<"n">>, <<patch, freeform>>)>> }
=============================================================================
