----------------------------- MODULE Gemma2Graph -----------------------------
(***************************************************************************)
(* The forward pass of EmbeddingGemma 2 (ei_gemma2_embed, src/src/gemma2.c)   *)
(* as a flow of named quantities.  It differs from ForwardGraph in norms of *)
(* the values, windows of another shape, an input per layer made of the     *)
(* embedding of the token, and a projection of every row before the mean.   *)
(***************************************************************************)
EXTENDS RowMemory

CONSTANT Gemma2Window       \* keys on either side of a query (512)

WindowOf(l) == IF IsSwa(l) THEN Gemma2Window ELSE 0

\* What the weights of a layer make of which quantities.  The CUDA backend has q, k
\* and v in one weight, and up and gate in another.
RowMaps == [
    attn_norm           |-> [from |-> <<{"x"}>>,                        to |-> "attn_in"],
    qkv                 |-> [from |-> <<{"attn_in"}>>,                  to |-> "qkv_raw"],
    attn_q              |-> [from |-> <<{"attn_in"}>>,                  to |-> "q_raw"],
    attn_k              |-> [from |-> <<{"attn_in"}>>,                  to |-> "k_raw"],
    attn_v              |-> [from |-> <<{"attn_in"}>>,                  to |-> "v_raw"],
    v_norm              |-> [from |-> <<{"v_raw", "qkv_raw"}>>,         to |-> "v"],
    attn_output         |-> [from |-> <<{"ctx"}>>,                      to |-> "attn_proj"],
    post_attention_norm |-> [from |-> <<{"attn_proj"}, {"x"}>>,         to |-> "mid"],
    ffn_norm            |-> [from |-> <<{"mid"}>>,                      to |-> "ffn_in"],
    upgate              |-> [from |-> <<{"ffn_in"}>>,                   to |-> "up_gate"],
    ffn_up              |-> [from |-> <<{"ffn_in"}>>,                   to |-> "up"],
    ffn_gate            |-> [from |-> <<{"ffn_in"}>>,                   to |-> "gate"],
    geglu               |-> [from |-> <<{"up_gate"}>>,                  to |-> "act"],
    gelu                |-> [from |-> <<{"gate"}, {"up"}>>,             to |-> "act"],
    ffn_down            |-> [from |-> <<{"act"}>>,                      to |-> "down"],
    post_ffw_norm       |-> [from |-> <<{"down"}, {"mid"}>>,            to |-> "ffn_out"],
    inp_gate            |-> [from |-> <<{"ffn_out"}>>,                  to |-> "gate_in"],
    ple_gate            |-> [from |-> <<{"gate_in"}, {"ple"}>>,         to |-> "gated"],
    proj                |-> [from |-> <<{"gated"}>>,                    to |-> "projected"],
    post_norm           |-> [from |-> <<{"projected"}, {"ffn_out"}>>,   to |-> "x"],
    per_layer_model_proj |-> [from |-> <<{"x"}>>,                       to |-> "ple_raw"],
    per_layer_proj_norm |-> [from |-> <<{"ple_raw"}>>,                  to |-> "ple"],
    output_norm         |-> [from |-> <<{"x"}>>,                        to |-> "normed"],
    output              |-> [from |-> <<{"normed"}>>,                   to |-> "out"]]

\* The inputs of all layers are made of the first one.
MadeIn(q, l) == IF q = "ple" THEN 1 ELSE l

\* post_norm completes the input of the next layer.
Applied(f, l, args) ==
    LET t == args[1].t
        from == RowMaps[f].from
    IN  IF \A i \in DOMAIN from : \E q \in from[i] : args[i] = Quantity(q, MadeIn(q, l), t)
        THEN Quantity(RowMaps[f].to, IF f = "post_norm" THEN l + 1 ELSE l, t)
        ELSE Garbage

RowResult(f, l, args) ==
    CASE Garbage \in {args[i] : i \in DOMAIN args} -> Garbage
      [] f = "convert" -> args[1]
      [] OTHER         -> Applied(f, l, args)

\* RMS norm of a head of q or k, then the rotation for a position with a table.
Rotated(f, l, value, position, swaTable) ==
    LET raw == {"qkv_raw", IF f = "attn_q_norm" THEN "q_raw" ELSE "k_raw"}
    IN  IF /\ value # Garbage
           /\ \E q \in raw : value = Quantity(q, l, value.t)
           /\ position = value.t.pos /\ swaTable = IsSwa(l)
        THEN Quantity(IF f = "attn_q_norm" THEN "q" ELSE "k", l, value.t)
        ELSE Garbage

\* The positions a token attends to in a layer.
InWindow(l, p, n) ==
    {k \in 0 .. n - 1 : WindowOf(l) = 0 \/ (k - p <= WindowOf(l) /\ p - k <= WindowOf(l))}

\* One query, and the pairs of K and V of the keys it attended to.
Attended(l, query, pairs) ==
    IF /\ query # Garbage
       /\ query = Quantity("q", l, query.t)
       /\ LET keys == {[query.t EXCEPT !.pos = k] : k \in InWindow(l, query.t.pos, query.t.len)}
          IN  pairs = {<<Quantity("k", l, t), Quantity("v", l, t)>> : t \in keys}
    THEN Quantity("ctx", l, query.t)
    ELSE Garbage

\* The mean of the projected rows and its L2 norm: the embedding of a sequence.
Pooled(values) ==
    LET rows == values \ {Garbage}
        t == (CHOOSE v \in rows : TRUE).t
    IN  IF /\ Garbage \notin values /\ rows # {}
           /\ rows = {Quantity("out", LayerCount + 1, [t EXCEPT !.pos = p]) : p \in 0 .. t.len - 1}
        THEN Embedding(t.call, t.seq, t.len)
        ELSE Garbage

=============================================================================
