----------------------------- MODULE MCFormEditor -----------------------------
(* A resource with a nested object of a number, a file and a list of dates, *)
(* and a free object beside it: every kind of field that is converted.      *)
EXTENDS FormEditor

CONSTANTS d1, d2

F(p, k, l) == [path |-> p, kind |-> k, list |-> l, nullable |-> TRUE]
MCFields == << F(<<"u", "age">>, "number", FALSE), F(<<"u", "doc">>, "binary", FALSE),
               F(<<"u", "items">>, "date", TRUE), F(<<"meta">>, "object", FALSE) >>
MCDatum == {d2}
MCDocs == { << Plain(d1), Stored(d1), List(<<Iso(d1)>>), Object(d1) >>,
            << Null, Null, List(<<>>), Null >> }

(* One field alone: a number that may be null, a list, and a number below   *)
(* two objects.                                                             *)
NumberFields == << F(<<"u", "age">>, "number", FALSE) >>
NumberDocs == { << Plain(d1) >>, << Null >> }
ListFields == << F(<<"u", "items">>, "date", TRUE) >>
ListDocs == { << List(<<Iso(d1)>>) >> }
DeepFields == << F(<<"u", "x", "age">>, "number", FALSE) >>
===============================================================================
