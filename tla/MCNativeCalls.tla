---------------------------- MODULE MCNativeCalls ----------------------------
(* Instance of NativeCalls for TLC: one thread calls every entry point, the *)
(* other one what can meet it: it moves the session, lists and fails.       *)
EXTENDS NativeCalls
CONSTANTS t1, t2

MCUses ==
  [t \in {t1, t2} |->
     IF t = t1 THEN DOMAIN EntryPoints
     ELSE {"message_access_set_folder", "message_access_list_messages"}]

\* Names come back at other levels: a wrong turn lands in a folder, too.
MCTree == {<<>>, <<"a">>, <<"b">>, <<"a", "a">>, <<"a", "b">>, <<"a", "a", "b">>}

\* "/", "a", "b/", "a//b", "/a/a/b"
MCTexts ==
  {<<"/">>, <<"a">>, <<"b", "/">>, <<"a", "/", "/", "b">>,
   <<"/", "a", "/", "a", "/", "b">>}
=============================================================================
