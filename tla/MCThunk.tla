------------------------------ MODULE MCThunk -------------------------------
EXTENDS Thunk

T(kind) == [kind |-> kind]
To(t) == [kind |-> "pointer", to |-> t]
Struct(fields) == [kind |-> "record", fields |-> fields, packed |-> FALSE]
Array(t, n) == [kind |-> "array", elem |-> t, len |-> n]

Time == Struct(<<T("long"), T("int")>>)            (* struct timeval *)
Mixed == Struct(<<T("short"), T("double"), T("ulong")>>)
Nested == Struct(<<T("short"), Time, T("long")>>)
Words == Struct(<<T("long"), Array(T("short"), 3)>>)

Pointed == {T("short"), T("long"), T("float"), Time, Mixed, Nested, Words}
Params == {T("int"), T("long"), T("ulong"), T("llong"), T("double"), To(T("char"))}
          \cup {To(t) : t \in Pointed}

Repeat(kind, n) == [j \in 1..n |-> T(kind)]
Tails == {<<a>> : a \in Params} \cup {<<a, b>> : a, b \in Params}
MCSignatures ==
  Tails \cup {Repeat("int", 5) \o <<a, b>> : a \in {T("int"), To(Time)}, b \in Params}
  \cup {Repeat("double", 7) \o <<a>> : a \in Params}
  \cup {<<To(T("short")), To(T("long")), To(T("short"))>>}
MCEntries == {2012}
=============================================================================
