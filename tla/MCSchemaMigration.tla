--------------------------- MODULE MCSchemaMigration ---------------------------
EXTENDS SchemaMigration

CONSTANTS v1, v2, v3, v4, v5

Versions == {v1, v2, v3, v4, v5}

Old == {v1, v2}

LiteralCalls ==
    [from : {{v1}, {v2}, {v3}, {v4}}, re : {FALSE}, to : {None}, plus : {FALSE}]
        \cup [from : {{v1}, {v2}}, re : {FALSE}, to : {None}, plus : {TRUE}]

\* a regular expression that may close a chain, and one that returns to v1
RegexCalls ==
    [from : {{v2, v4}}, re : {TRUE}, to : {None}, plus : BOOLEAN]
        \cup [from : {{v3, v4, v5}}, re : {TRUE}, to : {v1}, plus : {FALSE}]

GivenCalls ==
    [from : {{v1}}, re : {FALSE}, to : {v2}, plus : {FALSE}]
        \cup [from : {{v3}}, re : {FALSE}, to : {v4}, plus : {FALSE}]

Calls == LiteralCalls \cup RegexCalls \cup GivenCalls

=============================================================================
