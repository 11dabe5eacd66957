--------------------------------- MODULE Proxy ---------------------------------
(***************************************************************************)
(* The reverse proxy (config_loader.py, build_nginx_config and             *)
(* build_nginx_landing_page): which of its locations nginx takes for a     *)
(* path, where that sends the request, and the links of the landing page.  *)
(*                                                                         *)
(* A path is the sequence of its segments, the last one "" after a final   *)
(* slash: "/ui/logs" is <<"ui", "logs">>, "/ui/" <<"ui", "">>, "/" <<"">>. *)
(***************************************************************************)
EXTENDS Integers, Sequences

CONSTANTS
  Segments,             \* of paths
  Pages                 \* paths that the services, or the proxy, are asked for

\* The segments that the configuration of nginx names, and what follows the last slash.
NginxWords == {"", "v1", "litellm", "litellm-asset-prefix", "swagger", "ui", "health", "openapi.json", "llamaswap",
               "llamaswap-health", "activity", "logs", "models", "api", "upstream", "dev", "vllm", "vllm-health", "index.html"}

ASSUME ProxyAssumption == NginxWords \subseteq Segments /\ Pages \subseteq Seq(Segments) \ {<<>>}

Root == <<"">>

\* _normalize_base_path of what the configuration says, cut at its slashes: no
\* slash at the end, one at the front. The empty base is <<>>.
BasePath(text) ==
  LET words == IF text # <<>> /\ text[1] = "" THEN Tail(text) ELSE text
      ends == {0} \cup {i \in DOMAIN words : words[i] # ""}
  IN SubSeq(words, 1, CHOOSE i \in ends : \A j \in ends : j <= i)

(***************************************************************************)
(* Locations: "location = /stem", "location /stem/" and "location /stem".  *)
(* A request is passed on to a service, or to nginx itself, with something *)
(* instead of the stem; or its client is told to ask for that.             *)
(***************************************************************************)
Exact(stem, to, instead) == [kind |-> "exact", stem |-> stem, to |-> to, instead |-> instead]
Under(stem, to, instead) == [kind |-> "under", stem |-> stem, to |-> to, instead |-> instead]
From(stem, to, instead)  == [kind |-> "from",  stem |-> stem, to |-> to, instead |-> instead]

LiteLLMLocations ==
  {Under(<<s>>, "litellm", <<s>>) : s \in {"v1", "litellm-asset-prefix", "swagger", "ui"}}
    \cup {Exact(<<"litellm">>, "client", <<"litellm", "">>), Under(<<"litellm">>, "litellm", <<>>),
          Exact(<<"ui">>, "client", <<"ui", "">>), From(<<"health">>, "litellm", <<"health">>),
          Exact(<<"openapi.json">>, "litellm", <<"openapi.json">>)}

\* Its pages, and what its user interface asks for from the root.
LlamaSwapLocations ==
  {Exact(p, "client", <<"llamaswap", "ui", "">>) : p \in {<<"llamaswap">>, <<"llamaswap", "">>, <<"llamaswap", "ui">>}}
    \cup {Under(<<"llamaswap", "ui">>, "llamaswap", <<"ui">>), Under(<<"llamaswap">>, "llamaswap", <<>>),
          Exact(<<"llamaswap-health">>, "llamaswap", <<"health">>)}
    \cup {Exact(<<s>>, "llamaswap", <<s>>) : s \in {"activity", "logs", "models"}}
    \cup {Under(<<s>>, "llamaswap", <<s>>) : s \in {"api", "upstream", "dev"}}

VllmLocations(enabled) ==
  IF enabled THEN {Exact(<<"vllm">>, "client", <<"vllm", "">>), Under(<<"vllm">>, "vllm", <<>>),
                   Exact(<<"vllm-health">>, "vllm", <<"health">>)}
  ELSE {}

Fixed(enabled) == LiteLLMLocations \cup LlamaSwapLocations \cup VllmLocations(enabled)
                 \cup {Exact(Root, "static", <<"index.html">>)}

\* Mutant: the base is not rewritten.
BaseKept(base) ==
  IF base = <<>> THEN {} ELSE {Exact(base, "client", base \o Root), Under(base, "nginx", base)}

\* What is under the base goes through nginx once more, without it.
BaseLocations(base) ==
  IF base = <<>> THEN {} ELSE {Exact(base, "client", base \o Root), Under(base, "nginx", <<>>)}

Locations(base, enabled) == Fixed(enabled) \cup BaseLocations(base)

(***************************************************************************)
(* How nginx takes a location: an exact one, or the longest prefix.        *)
(***************************************************************************)
Covers(l, path) ==
  /\ Len(l.stem) <= Len(path) /\ SubSeq(path, 1, Len(l.stem)) = l.stem
  /\ l.kind = "exact" => Len(path) = Len(l.stem)
  /\ l.kind = "under" => Len(path) > Len(l.stem)

Weight(l) == 2 * Len(l.stem) + (IF l.kind = "from" THEN 0 ELSE 1)

Answer(to, path) == [to |-> to, path |-> path]

Hop(base, enabled, path) ==
  LET covering == {l \in Locations(base, enabled) : Covers(l, path)}
  IN IF covering = {} THEN Answer("404", path)
     ELSE LET l == CHOOSE l \in covering : \A m \in covering : Weight(m) <= Weight(l)
          IN Answer(l.to, l.instead \o SubSeq(path, Len(l.stem) + 1, Len(path)))

Final(answer) == answer.to \notin {"nginx", "client"}

Ask(base, enabled, answer) == IF Final(answer) THEN answer ELSE Hop(base, enabled, answer.path)

\* What a client gets who follows at most three redirects and rewrites.
Followed(base, enabled, path) ==
  Ask(base, enabled, Ask(base, enabled, Ask(base, enabled, Hop(base, enabled, path))))

\* proxy_redirect under /llamaswap/: where the client of a redirect to a page of
\* llama-swap is sent.
Redirected(page) == <<"llamaswap">> \o page

(***************************************************************************)
(* The landing page: each link, the service that its row names, and the    *)
(* page of that service.                                                   *)
(***************************************************************************)
Link(path, to, page) == [path |-> path, to |-> to, page |-> page]

Links(enabled) ==
  {Link(<<"v1", "models">>, "litellm", <<"v1", "models">>), Link(<<"litellm", "">>, "litellm", Root),
   Link(<<"ui", "">>, "litellm", <<"ui", "">>), Link(<<"health">>, "litellm", <<"health">>),
   Link(<<"llamaswap", "">>, "llamaswap", <<"ui", "">>), Link(<<"llamaswap-health">>, "llamaswap", <<"health">>)}
    \cup IF enabled THEN {Link(<<"vllm", "">>, "vllm", Root), Link(<<"vllm-health">>, "vllm", <<"health">>)} ELSE {}

(***************************************************************************)
(* Properties.                                                             *)
(***************************************************************************)
\* A base whose first word is that of another location would define it twice, or
\* hide it.
Clear(base, enabled) == base = <<>> \/ \A l \in Fixed(enabled) : base[1] # l.stem[1]

\* Every link of the landing page ends at the service and the page that its row
\* promises, with the base in front or not; and so does the landing page itself.
LinksEnd(base, enabled) ==
  /\ \A l \in Links(enabled) : Followed(base, enabled, base \o l.path) = Answer(l.to, l.page)
  /\ \A path \in {base, base \o Root, Root} \ {<<>>} : Followed(base, enabled, path) = Answer("static", <<"index.html">>)

\* Under the base a client gets what it would have got without it ("all existing
\* route handlers work unchanged under the base URL").
BaseTransparent(base, enabled) ==
  base # <<>> => \A p \in Pages : Hop(base, enabled, base \o p) = Answer("nginx", p)

\* What the user interface of llama-swap asks for from the root reaches it
\* unchanged, and so does a client that it redirects, unless to its start page,
\* which is under /ui/.
SwapReached(base, enabled) ==
  /\ \A s \in {"activity", "logs", "models"} : Hop(base, enabled, <<s>>) = Answer("llamaswap", <<s>>)
  /\ \A s \in {"api", "upstream", "dev"}, p \in Pages : Hop(base, enabled, <<s>> \o p) = Answer("llamaswap", <<s>> \o p)
  /\ \A p \in Pages :
       Followed(base, enabled, Redirected(p)) = Answer("llamaswap", IF p \in {Root, <<"ui">>} THEN <<"ui", "">> ELSE p)
================================================================================
