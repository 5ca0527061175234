----------------------------- MODULE MCToolGuard -----------------------------
EXTENDS ToolGuard, TLC

CONSTANTS good, poor

Pins == [s \in Server |-> good]
Slots == Permutations(Request)

Reply1(f, part) == [form |-> f, parts |-> <<part>>]
AnyWhole == {Reply1("whole", part) : part \in Part}
AnyStream == {Reply1("stream", part) : part \in {"encoded", "error"}}
             \cup {[form |-> "stream", parts |-> <<part, "list">>] :
                      part \in {"list", "page", "unreadable", "none", "tooLong", "broken"}}
AnyReply == AnyWhole \cup AnyStream
PlainReply == {Reply1("whole", "list"), Reply1("stream", "list")}
=============================================================================
