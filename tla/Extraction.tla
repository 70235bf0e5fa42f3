----------------------------- MODULE Extraction -----------------------------
(***************************************************************************)
(* What the keywords and the extractor make of the text of a market post:  *)
(* whether it buys or sells, and the brands and categories it names.       *)
(*                                                                         *)
(* A text is a set of phrases; a pattern is the set of phrases it matches. *)
(* Of the phrases that the same patterns match one stands for all.  Of the *)
(* attributes, which are only stored, there are the brand, categories,     *)
(* storage and RAM.                                                        *)
(***************************************************************************)
EXTENDS Integers, FiniteSets, FiniteSetsExt

\* Lines that a broadcast service adds to every post.
Noise == {"Recommended Member in"}

Intents == {"WTB", "wtb", "looking for", "buying", "anyone selling", "serious buyers",
            "WTS", "W T S", "selling", "seller", "stock update", "stock ready",
            "best price", "booking", "sold out"}
Goods == {"Apple", "iPhone", "MacBook", "Samsung", "Galaxy", "Buds", "Samsung SSD", "Pixel",
          "cable", "16gb", "256GB"}

\* The keywords, which look at the text in lower case: "anyone selling" has
\* "selling" in it, and "serious buyers" has "buy".
BUY_PATTERNS  == {{"WTB", "wtb"}, {"looking for"}, {"buying", "serious buyers"}, {"anyone selling"}}
SELL_PATTERNS == {{"WTS"}, {"selling", "anyone selling"}, {"seller"}, {"serious buyers"}, {"best price"}}

\* Fault: the extractor's table has a way to ask for offers that the keywords lack.
MorePatterns ==
    [SIDE_BUY     |-> {{"WTB"}, {"looking for"}, {"buying"}, {"anyone selling"}, {"best price"}},
     SIDE_SELL    |-> {{"WTS"}, {"W T S"}, {"selling", "anyone selling"}, {"seller"},
                      {"stock update", "stock ready"}},
     INTENT_PRICE_DISCOVERY |-> {}, INTENT_PREBOOK |-> {{"booking"}}, INTENT_STATUS_CLOSE |-> {{"sold out"}}]
INTENT_PATTERNS ==
    [SIDE_BUY     |-> {{"WTB"}, {"looking for"}, {"buying"}, {"anyone selling"}},
     SIDE_SELL    |-> {{"WTS"}, {"W T S"}, {"selling", "anyone selling"}, {"seller"},
                      {"stock update", "stock ready"}},
     INTENT_PRICE_DISCOVERY |-> {{"best price"}},
     INTENT_PREBOOK         |-> {{"booking"}},
     INTENT_STATUS_CLOSE    |-> {{"sold out"}}]

CATEGORY_PATTERNS ==
    [CAT_SMARTPHONE |-> {{"iPhone"}, {"Galaxy"}}, CAT_LAPTOP |-> {{"MacBook"}},
     CAT_EARBUDS    |-> {{"Buds"}},               CAT_ACCESSORY |-> {{"cable"}}]
BRAND_APPLE_SURFACE          == {{"Apple"}, {"iPhone"}, {"MacBook"}}
BRAND_SAMSUNG_SURFACE        == {{"Samsung", "Samsung SSD"}, {"Galaxy"}, {"Buds"}}
BRAND_NON_TARGET             == {{"Pixel"}}
BRAND_NON_TARGET_SAMSUNG_SSD == {{"Samsung SSD"}}
STORAGE_PATTERNS == {{"256GB"}, {"16gb"}}
RAM_PATTERNS     == {{"16gb"}}

-----------------------------------------------------------------------------
Hits(text, patterns)      == Cardinality({p \in patterns : p \intersect text # {}})
match_any(text, patterns) == \E p \in patterns : p \intersect text # {}
match_named_patterns(text, table) == {n \in DOMAIN table : match_any(text, table[n])}

\* A text of which nothing is left is taken as it was.
clean_text(text) == text \ Noise
Working(text) == IF clean_text(text) = {} THEN text ELSE clean_text(text)

_classify_side(text) == IF match_any(text, BUY_PATTERNS) THEN "BUY"
                        ELSE IF match_any(text, SELL_PATTERNS) THEN "SELL" ELSE "UNKNOWN"

Is(text, intent) == match_any(text, INTENT_PATTERNS[intent])

\* Fault: the counts are compared the wrong way round.
CountsSwapped(text) ==
    LET buy == Hits(text, INTENT_PATTERNS.SIDE_SELL)   sell == Hits(text, INTENT_PATTERNS.SIDE_BUY)
        chain == << <<"WTB" \in text, "buy">>,
                    <<{"WTS", "W T S"} \intersect text # {}, "sell">>,
                    <<Is(text, "INTENT_STATUS_CLOSE"), "status_close">>,
                    <<buy > sell, "buy">>,
                    <<sell > buy, "sell">>,
                    <<{"looking for", "wtb"} \intersect text # {}, "buy">>,
                    <<{"selling", "anyone selling", "stock update"} \intersect text # {}, "sell">>,
                    <<TRUE, "unknown">> >>
    IN  chain[Min({i \in DOMAIN chain : chain[i][1]})][2]

\* The first that applies: the marks of the trade, the end of an offer, the side
\* with more patterns, what is announced, and the weaker marks.
extract_side(text) ==
    LET buy == Hits(text, INTENT_PATTERNS.SIDE_BUY)   sell == Hits(text, INTENT_PATTERNS.SIDE_SELL)
        chain == << <<"WTB" \in text, "buy">>,
                    <<{"WTS", "W T S"} \intersect text # {}, "sell">>,
                    <<Is(text, "INTENT_STATUS_CLOSE"), "status_close">>,
                    <<buy > sell, "buy">>,
                    <<sell > buy, "sell">>,
                    <<Is(text, "INTENT_PRICE_DISCOVERY"), "price_discovery">>,
                    <<Is(text, "INTENT_PREBOOK"), "prebook">>,
                    <<{"looking for", "wtb"} \intersect text # {}, "buy">>,
                    <<{"selling", "anyone selling", "stock update"} \intersect text # {}, "sell">>,
                    <<TRUE, "unknown">> >>
    IN  chain[Min({i \in DOMAIN chain : chain[i][1]})][2]

extract_intent(text) ==
    LET working == Working(text) IN
    [side |-> extract_side(working),
     price_discovery |-> Is(working, "INTENT_PRICE_DISCOVERY"),
     prebook |-> Is(working, "INTENT_PREBOOK"), status_close |-> Is(working, "INTENT_STATUS_CLOSE")]

\* Fault: a disk of Samsung's hides whatever else is named.
SsdFirst(text) ==
    IF match_any(text, BRAND_NON_TARGET_SAMSUNG_SSD) THEN "non_target"
    ELSE IF match_any(text, BRAND_APPLE_SURFACE) THEN "apple" ELSE "unknown"

\* A disk of Samsung's hides Samsung's other goods, but not Apple's.
has_target_brand(text) ==
    LET apple == match_any(text, BRAND_APPLE_SURFACE)   samsung == match_any(text, BRAND_SAMSUNG_SURFACE)
        ssd == match_any(text, BRAND_NON_TARGET_SAMSUNG_SSD)
    IN  CASE ssd /\ apple            -> "apple"
          [] ssd /\ ~apple           -> "non_target"
          [] ~ssd /\ apple /\ samsung   -> "mixed"
          [] ~ssd /\ apple /\ ~samsung  -> "apple"
          [] ~ssd /\ ~apple /\ samsung  -> "samsung"
          [] OTHER -> IF match_any(text, BRAND_NON_TARGET) THEN "non_target" ELSE "unknown"

\* What else is a phone.  No category is Samsung's alone, though Apple's posts
\* would be cleared of such.
parse_category(text, brand) ==
    LET found == match_named_patterns(text, CATEGORY_PATTERNS)
        own   == IF brand = "samsung" THEN found \ {"CAT_LAPTOP"} ELSE found
    IN  IF own = {} /\ brand # "mixed" THEN {"CAT_SMARTPHONE"} ELSE own

parse_storage(text) == {p \in text : match_any({p}, STORAGE_PATTERNS)}
parse_ram(text)     == {p \in text : match_any({p}, RAM_PATTERNS)}

extract_attributes(text) ==
    LET working == Working(text)   brand == has_target_brand(working) IN
    IF brand \in {"non_target", "unknown"} THEN [passed |-> FALSE, brand |-> brand, categories |-> {}]
    ELSE [passed |-> TRUE, brand |-> brand, categories |-> parse_category(working, brand),
          storage |-> parse_storage(working), ram |-> parse_ram(working)]

-----------------------------------------------------------------------------
(* What should hold of a text *)

\* The extractor does not contradict the keywords, or knows a phrase they lack.
Agreed(text) ==
    LET keyword == _classify_side(text)   side == extract_side(text) IN
    /\ keyword = "SELL" => side # "buy"
    /\ keyword = "UNKNOWN" /\ side \in {"buy", "sell"} => {"W T S", "stock update", "stock ready"} \intersect text # {}

\* Who says the same once more is on the same side.
Steady(text) ==
    /\ extract_side(text) = "buy" => \A p \in {"looking for", "buying", "wtb"} : extract_side(text \union {p}) = "buy"
    /\ extract_side(text) = "sell" =>
          \A p \in {"WTS", "W T S", "selling", "seller", "stock update"} : extract_side(text \union {p}) = "sell"

\* What is dealt in passes, with a category.
PassesOn(text) ==
    LET found == extract_attributes(text) IN
    /\ {"Apple", "iPhone", "MacBook"} \intersect text # {} => found.passed
    /\ {"Samsung", "Galaxy", "Buds"} \intersect text # {} => found.passed \/ "Samsung SSD" \in text
    /\ found.passed /\ found.categories = {} => {"Apple", "Samsung"} \subseteq text
=============================================================================
