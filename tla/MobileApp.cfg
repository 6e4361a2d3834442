SPECIFICATION Spec
CONSTANTS
    Orders = {o1, o2}
    None = None
    Works = {w1, w2}
    Overlapping = {"create", "update", "verify"}
    OtpLength = 6
    MaxAttempts = 2
    Statuses = {"open", "delivered"}
    Routes = {r1, r2}
    Choices = {any, new}
    AnyChoice = any
    WideTab = delivery
    Searches = {nothing, text}
    NoSearch = nothing
    Lists = {l1, l2}
    Records = {c1, c2}
    NoRecord = NoRecord
    Desks = {d1, d2}
    Staff = {s1, s2}
    Nobody = Nobody
    Calls = {p1, p2}
SYMMETRY Interchangeable
INVARIANTS
    ActsOnShownOrder RatesConfirmedOrder FormsKeepContent PublishedOnce
    GuessesAreLimited RowsMatchFilter TabMatchesFilter ChangesWhatWasAsked
    ShownDriversAreEligible StaffPageMatchesTokens
