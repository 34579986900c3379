CONSTANTS
  HashtagLimit = 2
  Texts = {"a", "b"}
  NoText = "none"
  MaxActs = 5
SPECIFICATION Spec
CHECK_DEADLOCK FALSE
INVARIANTS TypeOK HashtagIsTag PostsAreAsked NoticesTellPosts CommentIsShownAsSent
PROPERTIES PostsAreTried
