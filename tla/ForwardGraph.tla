----------------------------- MODULE ForwardGraph -----------------------------
(***************************************************************************)
(* The forward pass of the embedding model (struct ei_layer, src/src/model.h) *)
(* as a flow of named quantities.  Every backend reaches the same embedding *)
(* by its own sequence of kernels over its own buffers.                     *)
(***************************************************************************)
EXTENDS RowMemory

CONSTANT SwaWindow      \* of the layers that do not attend to the whole sequence

WindowOf(l) == IF IsSwa(l) THEN SwaWindow ELSE 0

\* What every weight of a layer, and the weightless gelu, make of which
\* quantities of the layer.  The residual sums are part of the norms they follow.
RowMaps == [
    attn_norm           |-> [from |-> <<"x">>,                to |-> "attn_in"],
    attn_q              |-> [from |-> <<"attn_in">>,          to |-> "q_raw"],
    attn_k              |-> [from |-> <<"attn_in">>,          to |-> "k_raw"],
    attn_v              |-> [from |-> <<"attn_in">>,          to |-> "v"],
    attn_output         |-> [from |-> <<"ctx">>,              to |-> "attn_proj"],
    post_attention_norm |-> [from |-> <<"attn_proj", "x">>,   to |-> "mid"],
    ffn_norm            |-> [from |-> <<"mid">>,              to |-> "ffn_in"],
    ffn_up              |-> [from |-> <<"ffn_in">>,           to |-> "up"],
    ffn_gate            |-> [from |-> <<"ffn_in">>,           to |-> "gate"],
    gelu                |-> [from |-> <<"gate", "up">>,       to |-> "act"],
    ffn_down            |-> [from |-> <<"act">>,              to |-> "down"],
    post_ffw_norm       |-> [from |-> <<"down", "mid">>,      to |-> "x"]]

\* post_ffw_norm completes the input of the next layer.
Applied(f, l, args) ==
    LET t == args[1].t
        from == RowMaps[f].from
    IN  IF \A i \in DOMAIN from : args[i] = Quantity(from[i], l, t)
        THEN Quantity(RowMaps[f].to, IF f = "post_ffw_norm" THEN l + 1 ELSE l, t)
        ELSE Garbage

\* The attention of a sequence of one token is the value of that token.
OnlyValue(l, value) ==
    IF value = Quantity("v", l, value.t) /\ value.t.len = 1 THEN Quantity("ctx", l, value.t) ELSE Garbage

\* A conversion between formats keeps the quantity of its row.
RowResult(f, l, args) ==
    CASE Garbage \in {args[i] : i \in DOMAIN args} -> Garbage
      [] f = "convert" -> args[1]
      [] f = "repeat"  -> OnlyValue(l, args[1])
      [] OTHER         -> Applied(f, l, args)

\* RMS norm of a head of q or k, then the rotation for a position with a table.
Rotated(f, l, value, position, swaTable) ==
    IF /\ value # Garbage
       /\ value = Quantity(IF f = "attn_q_norm" THEN "q_raw" ELSE "k_raw", l, value.t)
       /\ position = value.t.pos /\ swaTable = IsSwa(l)
    THEN Quantity(IF f = "attn_q_norm" THEN "q" ELSE "k", l, value.t)
    ELSE Garbage

\* The positions a token attends to in a layer.
InWindow(l, p, n) ==
    {k \in 0 .. n - 1 :
        WindowOf(l) = 0 \/ (k - p <= WindowOf(l) \div 2 /\ p - k <= WindowOf(l) \div 2)}

\* One query, and the pairs of K and V of the keys it attended to.
Attended(l, query, pairs) ==
    IF /\ query # Garbage
       /\ query = Quantity("q", l, query.t)
       /\ LET t == query.t
          IN  pairs = {<<Quantity("k", l, [t EXCEPT !.pos = k]), Quantity("v", l, [t EXCEPT !.pos = k])>> :
                          k \in InWindow(l, t.pos, t.len)}
    THEN Quantity("ctx", l, query.t)
    ELSE Garbage

\* The norm of every row, their mean, its L2 norm: the embedding of a sequence.
Pooled(values) ==
    LET rows == values \ {Garbage}
        t == (CHOOSE v \in rows : TRUE).t
    IN  IF /\ Garbage \notin values /\ rows # {}
           /\ rows = {Quantity("x", LayerCount + 1, [t EXCEPT !.pos = p]) : p \in 0 .. t.len - 1}
        THEN Embedding(t.call, t.seq, t.len)
        ELSE Garbage

=============================================================================
