--------------------------- MODULE MCSearchPaging ---------------------------
EXTENDS MailWalks
One  == <<"inbox">>
Both == <<"inbox", "sent">>
InOrder ==
  ({"quick", "read", "advanced", "full_text", "exact", "cached", "folder"} \X {One})
    \cup ({"all", "thread"} \X {Both})
=============================================================================
