CONSTANTS
    c1 = c1
    c2 = c2
    Unfit = Unfit
    Blank = Blank
    Absent = Absent
    Callers = {c1, c2}
    Wishes <- MCWishes
    Channels = {"UC1", "UC2"}
    Lower <- MCLower
    Playlists = {"RD1", "RD2"}
    SearchTopics <- MCSearchTopics
    ChannelTopics = {"music"}
    Standard = 1
    Most = 2
    Room = 1
SPECIFICATION OpsSpec
SYMMETRY Symmetry
INVARIANTS
    AnswersItsRequest
