---------------------------- MODULE MCInspection ----------------------------
(* Inspection on small instances.  Documents of up to two texts, hidden or    *)
(* blank; texts decode to one or two others, in up to three layers and in     *)
(* cycles; two rules.  Fragments of HTML of up to five tags and six visible   *)
(* characters or breaks.  Values of dicts and lists, nested in each other.    *)
EXTENDS Inspection

MCTexts == {"a", "b", "c", "d", "blank"}

MCRules == {[id |-> "override", kind |-> "harmful", score |-> 60],
            [id |-> "role", kind |-> "hint", score |-> 20]}

To(t, encoding) == [text |-> t, encoding |-> encoding]

\* How texts decode: not at all, in a chain, to two at once by way of the same or
\* of different encodings, and in a cycle.
MCVariants ==
  LET none == [t \in MCTexts |-> <<>>]
  IN  {none,
       [none EXCEPT !["a"] = <<To("b", "url")>>, !["b"] = <<To("c", "hex")>>],
       [none EXCEPT !["a"] = <<To("b", "url"), To("b", "url-form")>>, !["b"] = <<To("a", "rot13")>>],
       [none EXCEPT !["a"] = <<To("b", "hex"), To("c", "hex")>>, !["b"] = <<To("d", "url")>>,
                    !["c"] = <<To("d", "hex")>>],
       [none EXCEPT !["a"] = <<To("b", "url")>>, !["b"] = <<To("c", "url")>>, !["c"] = <<To("d", "url")>>]}

MCMatches ==
  {[t \in MCTexts |-> {r \in MCRules : <<t, r.kind>> \in at}] :
     at \in {{}, {<<"b", "harmful">>}, {<<"c", "hint">>}, {<<"a", "hint">>, <<"b", "harmful">>, <<"d", "hint">>}}}

Text(t, h) == [text |-> t, hidden |-> h]

MCDocuments ==
  [texts : {<<Text("a", FALSE)>>, <<Text("blank", FALSE), Text("a", TRUE)>>,
            <<Text("a", FALSE), Text("b", TRUE)>>, <<Text("blank", TRUE)>>},
   registered : BOOLEAN,
   variants : MCVariants, matches : MCMatches, invisible : {{}, {"a", "c"}}]

MCLimits ==
  [segments : {1, 2}, depth : {1, 2}, candidates : {2, 4}, expansion : {1, 3}, findings : {1, 4}]

Leaf(scalar) == [path \in {<<>>} |-> scalar]
Branch(kind, below) ==
  [path \in {<<>>} \cup UNION {{<<step>> \o p : p \in DOMAIN below[step]} : step \in DOMAIN below} |->
     IF path = <<>> THEN kind ELSE below[Head(path)][Tail(path)]]

MCSteps == {"args", "name", "[0]", "[1]"}

Dicts(values) == {Branch("dict", f) : f \in UNION {[ks -> values] : ks \in SUBSET {"args", "name"}}}
Lists(items) == {Branch("list", f) : f \in UNION {[is -> items] : is \in {{}, {"[0]"}, {"[0]", "[1]"}}}}

MCValues == Dicts({Leaf("0"), Branch("list", [i \in {"[0]"} |-> Leaf("0")]),
                   Branch("list", [i \in {"[0]", "[1]"} |-> Leaf(IF i = "[0]" THEN "1" ELSE "0")]),
                   Branch("dict", [k \in {"name"} |-> Leaf("0")])})
            \cup Lists({Leaf("0"), Leaf("1"), Branch("dict", [k \in {"args"} |-> Leaf("1")])})
=============================================================================
