------------------------------- MODULE Generator -------------------------------
(***************************************************************************)
(* The generator: the layers that its sources are read through (Layers),   *)
(* the builders that work on what has been merged (Catalog), and the       *)
(* reverse proxy that it configures (Proxy).                               *)
(***************************************************************************)
EXTENDS Catalog, Layers, Proxy

\* The files are mappings of mappings, which end somewhere; network.base_path is
\* a path.
ASSUME GeneratorAssumption ==
  \A x \in Configs : /\ {x.trees.project, x.trees.local, x.trees.private} \subseteq Tree[Depth]
                     /\ x.base \in Seq(Segments)

\* Every layer overrides what is below it, setting by setting, as long as the
\* local file and its private overlay agree on what is a section.
LayersHold ==
  LET settings(tree) == Settings[Depth][tree]
      t == c.trees
  IN pc = "collect" /\ Conflicts[Depth][<<t.local, t.private>>] = {} =>
       settings(Layered(t.project, t.local, t.private))
         = Overlaid(Overlaid(settings(t.project), settings(t.local)), settings(t.private))

\* Behind the proxy, whatever the base path says and with or without vLLM: every
\* link of the landing page, every path under the base, and whatever the user
\* interface of llama-swap asks for end at the service they are meant for, past
\* exact locations, longer prefixes, redirects and the second pass through nginx.
ProxyServes ==
  LET base == BasePath(c.base)
  IN pc = "collect" /\ Clear(base, c.vllm) =>
       LinksEnd(base, c.vllm) /\ BaseTransparent(base, c.vllm) /\ SwapReached(base, c.vllm)
================================================================================
