------------------------------- MODULE MCText --------------------------------
(* Arguments for TLC: all strings over small alphabets, each alphabet the  *)
(* bytes that the functions tell apart.                                    *)
EXTENDS TextCalls, FiniteSetsExt

Over(S, n) == UNION {[1 .. k -> S] : k \in 0 .. n}
Joins(atoms, n) == {FlattenSeq(parts) : parts \in Over(atoms, n)}

a == 97
Chars == {<<a>>, <<Slash>>, <<Backslash>>, <<195, 169>>, <<226, 130, 172>>, <<240, 159, 152, 128>>}
MCTexts == {t \in Joins(Chars, 4) : Len(t) <= 4}
MCPaths == Over({a, Slash, Space, Quote}, 5) \cup Over({a, Slash, Backslash, 58}, 5)
             \cup Over({a, Slash}, 9)
MCPatterns == Over({a, Slash}, 4) \cup {<<195, 169>>}
MCStreams == Over({a, Space, Newline}, 6) \cup Over({a, 98, Space}, 5) \cup Over({a, Space}, 9)
MCNumerals == Over({48, 49, 57, Minus, Dot, 101}, 5) \cup Over({48, 49, 120, 70, 97, Space}, 5)
                \cup Over({49, 50, Plus, Minus, 101, Space}, 4)
MCJsons == Over({Quote, Backslash, 49, Comma, Space, OpenBracket}, 4)
             \cup Joins({True, NullWord, <<Comma>>, <<Space>>, <<49>>, <<Dot>>, <<Quote>>, <<116>>}, 3)
MCJsonsMarked == MCJsons \cup {<<239, 187, 191>> \o j : j \in Over({49, OpenBracket, Space}, 3)}
U(d, e, f, g) == <<Backslash, 117, d, e, f, g>>
MCStrings == Joins({<<a>>, <<195, 169>>, <<Backslash, 110>>, <<Backslash, Backslash>>,
                    U(48, 48, 52, 49),              \* A
                    U(50, 48, 65, 99),              \* the euro sign
                    U(100, 56, 51, 68),             \* half of a pair
                    U(68, 69, 48, 49),              \* the other half
                    U(68, 67, 48, 49),              \* one that makes U+10001 with D800
                    U(68, 56, 48, 48)}, 3)
MCNames == {"f", "g"}
MCFiles == {File("none", 0, <<>>), File("dir", 0, <<>>)}
             \cup {File("file", m, d) : m \in {0, 1}, d \in Over({a}, 5)}
MCFileSystems == [MCNames -> MCFiles]
MCInts == IntMin .. IntMax
MCCodepoints == UNION {n - 2 .. n + 2 : n \in {128, 2048, 55296, 57343, 65536, 65636, 1114112}}
                  \cup 0 .. 300
=============================================================================
