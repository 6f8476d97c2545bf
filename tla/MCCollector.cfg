SPECIFICATION Spec
CONSTANTS
    s1 = s1
    s2 = s2
    u1 = u1
    u2 = u2
    pub = pub
    priv = priv
    None = None
    Source = {s1, s2}
    Url = {u1, u2}
    Address = {pub, priv}
    UrlOf <- Urls
    Blocked = {priv}
    Feed <- Feeds
    MaxRedirects = 1
    Worlds <- AllWorlds
INVARIANT RowsInv
INVARIANT AddressChecked
INVARIANT UnchangedFeedIsQuiet
PROPERTY CollectionEnds
