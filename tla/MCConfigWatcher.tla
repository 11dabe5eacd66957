-------------------------- MODULE MCConfigWatcher --------------------------
(* Instances of ConfigWatcher for TLC. *)
EXTENDS ConfigWatcher

MCOrder == <<"llama_swap", "backend_runtime_catalog", "litellm", "vllm", "nginx">>

\* Every output write_generated_configs has.
MCOrderAll ==
    <<"llama_swap", "backend_runtime_catalog", "litellm", "vllm", "mcp_client",
      "nginx", "systemd">>

MCOrderMcp == <<"llama_swap", "litellm", "vllm", "mcp_client", "nginx">>

\* A comment, one output, a model published by two back ends, a port, a runtime variant.
MCChangeSets ==
    {{}, {"vllm"}, {"llama_swap", "litellm"}, {"litellm", "nginx"},
     {"llama_swap", "backend_runtime_catalog"}}

MCFaultSets == {{}, {"llama_swap", "litellm"}, {"litellm", "nginx"}, {"vllm"}}

MCOverlapSets == {{"vllm"}, {"litellm"}}

MCGood == {{}}

MCOrderShort == <<"vllm">>

MCWildSets == {{"vllm"}}

MCWildBad == {{}, {"vllm"}}

\* stack.override.yaml broken; mcp.override.yaml broken; repaired.
MCBadSets == {{}, {LoadError}, {"mcp_client"}}
=============================================================================
