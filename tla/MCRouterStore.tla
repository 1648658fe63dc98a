--------------------------- MODULE MCRouterStore ---------------------------
(* The service, one application effect, two URLs.                          *)
EXTENDS RouterStore

CONSTANTS router, home, away

MCTypes == [type : RouterActions \cup {"jump"}, id : 0 .. MaxNavigations,
            url : Urls \cup {Null}, store : (0 .. MaxActions) \cup {Null}]
MCHandles == router :> {a \in MCTypes : a.type \in Reduced}
MCReactsTo == {ROUTER_REQUEST, ROUTER_NAVIGATION, ROUTER_NAVIGATED,
               ROUTER_CANCEL}
=============================================================================
