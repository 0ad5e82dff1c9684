-------------------------- MODULE ChannelCommands --------------------------
(* The channel, user and session commands: src/lib/ipmi_channel.c,          *)
(* src/lib/ipmi_user.c and src/lib/ipmi_session.c.                          *)
EXTENDS CommandSteps

_ipmi_get_channel_access == Reads("GetChannelAccess")

_ipmi_get_channel_info == Reads("GetChannelInfo")

(* "channel unknown" on a failure.                                          *)
ipmi_current_channel_info == Asks(Do("_ipmi_get_channel_info", "ok"))

_ipmi_set_channel_access == Writes("SetChannelAccess")

(* Without an answer to the IPMI 2.0 form, the 1.5 form is tried.           *)
ipmi_get_channel_auth_cap ==
    [start |-> GetOr("GetAuthCap", "old", "old", "ok"),
     old   |-> Get("GetAuthCap", "ok")]

(* 16 bytes of the list at a time, until a short response.                  *)
ipmi_get_channel_cipher_suites ==
    [start |-> Branch({"err", "list"}),
     list  |-> Get("GetCipherSuites", "size"),
     size  |-> Branch({"err", "more", "ok"}),
     more  |-> Loop("list", "ok")]

ipmi_print_channel_cipher_suites == Asks(Call("ipmi_get_channel_cipher_suites", "ok"))

(* The access settings are those of LAN channels only.                      *)
ipmi_get_channel_info ==
    [start       |-> CallOr("_ipmi_get_channel_info", "err", "medium"),
     medium      |-> Branch({"ok", "volatile"}),
     volatile    |-> CallOr("_ipmi_get_channel_access", "err", "nonvolatile"),
     nonvolatile |-> CallOr("_ipmi_get_channel_access", "err", "ok")]

(* A failure reads as "reserved", which is no LAN medium.                   *)
ipmi_get_channel_medium == Asks(CallOr("_ipmi_get_channel_info", "err", "ok"))

(* 0xcc for a user name means a user without a name.                        *)
ipmi_get_user_access ==
    [start  |-> CallOr("_ipmi_get_user_access", "err", "name"),
     name   |-> CallBy("_ipmi_get_user_name", "err", "noname", "next"),
     noname |-> Branch({"err", "next"}),
     next   |-> Loop("start", "ok")]

ipmi_set_user_access ==
    [start   |-> Branch({"ok", "err", "get"}),
     get     |-> CallOr("_ipmi_get_user_access", "err", "options"),
     options |-> Branch({"err", "set"}),
     set     |-> CallOr("_ipmi_set_user_access", "err", "ok")]

ipmi_channel_main ==
    Dispatch({"ipmi_get_channel_auth_cap", "ipmi_get_user_access", "ipmi_set_user_access",
              "ipmi_get_channel_info", "ipmi_print_channel_cipher_suites"})

_ipmi_get_user_access == Reads("GetUserAccess")

_ipmi_get_user_name == Reads("GetUserName")

_ipmi_set_user_access == Writes("SetUserAccess")

_ipmi_set_user_password == Writes("SetUserPassword")

ipmi_print_user_list ==
    [start  |-> CallOr("_ipmi_get_user_access", "err", "name"),
     name   |-> CallBy("_ipmi_get_user_name", "err", "noname", "next"),
     noname |-> Branch({"err", "next"}),
     next   |-> Loop("start", "ok")]

ipmi_print_user_summary == Asks(CallOr("_ipmi_get_user_access", "err", "ok"))

ipmi_user_set_username == Checked(Put("SetUserName", "ok"))

ipmi_user_test_password == Asks(CallOr("_ipmi_set_user_password", "err", "ok"))

ipmi_user_summary == Checked(Call("ipmi_print_user_summary", "ok"))

ipmi_user_list == Checked(Call("ipmi_print_user_list", "ok"))

ipmi_user_test == Checked(Call("ipmi_user_test_password", "ok"))

ipmi_user_priv == Checked(CallOr("_ipmi_set_user_access", "err", "ok"))

ipmi_user_mod == Checked(CallOr("_ipmi_set_user_password", "err", "ok"))

ipmi_user_password == Checked(CallOr("_ipmi_set_user_password", "err", "ok"))

ipmi_user_name == Checked(Call("ipmi_user_set_username", "ok"))

ipmi_user_main ==
    Dispatch({"ipmi_user_summary", "ipmi_user_list", "ipmi_user_test", "ipmi_user_password",
              "ipmi_user_name", "ipmi_user_priv", "ipmi_user_mod"})

(* All slots: up to the number the last response gives.                     *)
ipmi_get_session_info ==
    [start |-> Branch({"one", "slot"}),
     one   |-> Get("GetSessionInfo", "ok"),
     slot  |-> GetOr("GetSessionInfo", "err", "empty", "size"),
     empty |-> Branch({"err", "size"}),
     size  |-> Branch({"err", "next"}),
     next  |-> Loop("slot", "ok")]

ipmi_session_main == Dispatch({"ipmi_get_session_info"})

(* The functions by name. *)
ChannelCode ==
    [_ipmi_get_channel_access |-> _ipmi_get_channel_access,
     _ipmi_get_channel_info |-> _ipmi_get_channel_info,
     ipmi_current_channel_info |-> ipmi_current_channel_info,
     _ipmi_set_channel_access |-> _ipmi_set_channel_access,
     ipmi_get_channel_auth_cap |-> ipmi_get_channel_auth_cap,
     ipmi_get_channel_cipher_suites |-> ipmi_get_channel_cipher_suites,
     ipmi_print_channel_cipher_suites |-> ipmi_print_channel_cipher_suites,
     ipmi_get_channel_info |-> ipmi_get_channel_info,
     ipmi_get_channel_medium |-> ipmi_get_channel_medium,
     ipmi_get_user_access |-> ipmi_get_user_access,
     ipmi_set_user_access |-> ipmi_set_user_access,
     ipmi_channel_main |-> ipmi_channel_main,
     _ipmi_get_user_access |-> _ipmi_get_user_access,
     _ipmi_get_user_name |-> _ipmi_get_user_name,
     _ipmi_set_user_access |-> _ipmi_set_user_access,
     _ipmi_set_user_password |-> _ipmi_set_user_password,
     ipmi_print_user_list |-> ipmi_print_user_list,
     ipmi_print_user_summary |-> ipmi_print_user_summary,
     ipmi_user_set_username |-> ipmi_user_set_username,
     ipmi_user_test_password |-> ipmi_user_test_password,
     ipmi_user_summary |-> ipmi_user_summary, ipmi_user_list |-> ipmi_user_list,
     ipmi_user_test |-> ipmi_user_test, ipmi_user_priv |-> ipmi_user_priv,
     ipmi_user_mod |-> ipmi_user_mod, ipmi_user_password |-> ipmi_user_password,
     ipmi_user_name |-> ipmi_user_name, ipmi_user_main |-> ipmi_user_main,
     ipmi_get_session_info |-> ipmi_get_session_info,
     ipmi_session_main |-> ipmi_session_main]

=============================================================================
