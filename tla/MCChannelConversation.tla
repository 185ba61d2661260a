----------------------- MODULE MCChannelConversation -----------------------
EXTENDS ChannelConversation

CONSTANTS k1, k2, m1, m2

\* The first message speaks or asks to be bound, the second one, of the same
\* chat or another, speaks or commands.
MCInbox == ({m1} \X {k1} \X {"text", "blank", "register"})
           \cup ({m2} \X {k1, k2} \X {"text", "named", "new", "unregister", "status"})

\* A chat whose user names an agent that is not there.
MCMistyped == ({m1} \X {k1} \X {"text"}) \cup ({m2} \X {k1} \X {"misnamed", "misregister"})
=============================================================================
