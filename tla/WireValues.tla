----------------------------- MODULE WireValues -----------------------------
(***************************************************************************)
(* JSON values as serde_json sees them, one record shape per kind, and     *)
(* the outcome of a call: [ok |-> value] or [err, code, message].          *)
(***************************************************************************)
LOCAL INSTANCE Naturals
LOCAL INSTANCE Sequences

Null    == [null |-> 0]
Str(s)  == [str |-> s]
Num(n)  == [num |-> n]
Bool(b) == [bool |-> b]
Arr(s)  == [arr |-> s]
Obj(r)  == [obj |-> r]

\* Bytes that are no JSON at all.
Malformed == [bytes |-> 0]

IsStr(v) == "str" \in DOMAIN v
IsArr(v) == "arr" \in DOMAIN v
IsObj(v) == "obj" \in DOMAIN v
IsBool(v) == "bool" \in DOMAIN v
IsNum(v) == "num" \in DOMAIN v

\* Value::get: the field of an object, and nothing for any other kind.
Has(v, f) == IsObj(v) /\ f \in DOMAIN v.obj
Field(v, f, default) == IF Has(v, f) THEN v.obj[f] ELSE default

\* Value::get(f).and_then(Value::as_str), and the same for a boolean.
StrField(v, f, default) ==
    IF IsStr(Field(v, f, Null)) THEN v.obj[f].str ELSE default
BoolField(v, f, default) ==
    IF IsBool(Field(v, f, Null)) THEN v.obj[f].bool ELSE default

\* Value::to_string, as far as two texts are told apart.
Text(v) == IF IsStr(v) THEN v.str ELSE <<"json", v>>

Ok(v) == [ok |-> v]
Err(kind, code, message) == [err |-> kind, code |-> code, message |-> message]
Failure(kind) == Err(kind, "", "")
IsOk(outcome) == "ok" \in DOMAIN outcome
=============================================================================
